---- MODULE Spec2Model ----
(***************************************************************************)
(* Transcript-assembly pipeline of neuroai-transcribe: the Stitcher        *)
(* (backend/core/stitch.py), the Anomaly Flagger (backend/core/flag.py)    *)
(* and the Aligner (backend/core/pipeline.py, run_alignment).              *)
(*                                                                         *)
(* Conventions                                                             *)
(*   - a text is a sequence of one-character strings;                      *)
(*   - times are integers in milliseconds;                                 *)
(*   - a verification_score is an integer number of hundredths (100 = 1.0);*)
(*   - a dictionary field that the code has not set yet is Absent (string  *)
(*     fields) or AbsentNum (numeric fields); Python's None is NoneVal.    *)
(*   - the completion service is the environment: each call either fails   *)
(*     or returns an arbitrary reply of the response schema.  A reply is a *)
(*     pydantic object and so always true in "if result:" / "if report:",  *)
(*     also when its list is empty.                                        *)
(***************************************************************************)
EXTENDS Integers, Sequences, FiniteSets, TLC

VARIABLES
    \* ---- Stitcher (run_stitching_logic) ----
    st_pc,          \* "idle" | "call" (in the service call) | "reply" | "done"
    raw_data,       \* the list of aligned segments handed to the Stitcher
    st_input,       \* the aligned segments exactly as they were handed in
    st_i,           \* loop variable i: 0-based offset of the current window
    st_attempt,     \* loop variable attempt of process_batch_safe
    final_results,  \* the list run_stitching_logic builds and returns
    st_log,         \* history: per emitted sentence, the window and the proposal
    st_groups_left, \* groups the service may still return in this run
    \* ---- Anomaly Flagger (run_anomaly_detector) ----
    fl_pc,          \* "idle" | "start" | "call" | "reply" | "done"
    data,           \* the list of sentences, updated in place
    fl_input,       \* the sentences exactly as they were handed in
    fl_i,           \* loop variable i: 0-based offset of the current batch
    fl_attempt,     \* loop variable attempt of analyze_batch_safe
    fl_log,         \* history: per batch, its offset and the report (or failure)
    fl_items_left,  \* assessments the service may still return in this run
    \* ---- Aligner (PipelinePhase2.run_alignment) ----
    al_pc,          \* "idle" | "ready" | "done"
    w_segs,         \* recognized segments of the chunk (chunk-relative)
    d_segs,         \* diarization turns of the chunk (chunk-relative)
    chunk_offset_sec, \* the chunk's absolute offset, in milliseconds
    aligned_data,   \* the list run_alignment writes
    \* ---- Segmenter (SmartAudioSplitter.split_audio) ----
    sp_pc,          \* "idle" | "ready" | "done"
    sp_audio,       \* the audio file handed to split_audio
    sp_num_chunks,  \* the argument num_chunks
    output_files,   \* the chunk metadata list split_audio returns
    \* ---- OverallPipeline (run_complete_pipeline), one case directory ----
    ov_pc,          \* position of the run in run_complete_pipeline
    ov_run,         \* number of the current invocation on this case
    ov_audio,       \* the source audio of the case
    ov_num_chunks,  \* the argument num_chunks
    force_reprocess, \* the constructor argument of the current invocation
    chunk_files,    \* chunk_*.wav files of the case directory (their metadata)
    whisper_json,   \* per chunk: the *_whisper.json file
    diar_json,      \* per chunk: the *_diar.json file
    aligned_json,   \* per chunk: the *_aligned.json file
    final_transcript, \* the file final_transcript.json
    chunk_metadata, \* in memory: the list step1_split_audio returned
    ov_k,           \* in memory: 1-based position of the step-2 loop
    aligned_files,  \* in memory: the list step2_ai_processing builds
    all_segments,   \* in memory: the segments step3_merge_chunks returned
    stitched_segments, \* in memory: the result of run_stitching_logic
    final_segments, \* in memory: the list step4_stitch_and_flag returned
    ov_calls,       \* history: external calls made by the current invocation
    ov_history,     \* history: what happened in earlier invocations
    \* ---- NeuroAIPipeline.run, started by the upload endpoint ----
    rp_pc,          \* "idle" | "queued" | "split" | "process" | "stitch_flag" | "save" | "done"
    rp_audio,       \* the uploaded audio
    rp_num_chunks,  \* config.default_num_chunks
    rp_chunk_metadata, \* the list _step_1_split returned
    rp_aligned,     \* per chunk: the segments of its aligned file (<<>> if none)
    rp_final_data,  \* the list _step_3_4_process_per_chunk returned
    rp_calls,       \* history: external calls made by the run
    rp_transcript,  \* the file output/transcript.json
    rp_result,      \* what run returned (Absent while it has not returned)
    rp_error,       \* the exception run caught (Absent if none)
    \* ---- status record (FileManager.save_status / get_status) ----
    status_file,    \* the file status.json of the case
    polled,         \* what the last get_status call returned
    sr_pc,          \* get_status: "idle" | "open" (exists() was true)
    sw_pc,          \* save_status: "idle" | "writing" (file opened with "w")
    sw_data,        \* save_status: the record being written
    sw_saved,       \* history: the records save_status was called with
    \* ---- uploads (upload_video_endpoint) and their background runs ----
    up_pc,          \* per upload: "none" | "queued" | a phase of run | "done"
    up_case,        \* per upload: the form field case_name
    \* ---- adapter models in memory (run_whisper, run_diarization) ----
    gpu_pc,         \* position inside the step-2 loop and the adapter calls
    gpu_n,          \* number of chunks of the case
    gpu_k,          \* 1-based position of the step-2 loop
    resident,       \* the adapter models whose memory is not reclaimed yet
    gpu_outcomes,   \* history: per chunk visited, how its processing ended
    \* ---- merge of the aligned files (step3_merge_chunks) ----
    mg_pc,          \* "idle" | "listed" | "merging" | "done"
    mg_n,           \* number of chunks of the case
    mg_resumed,     \* TRUE: step 1 rebuilt the chunk list from the file names
    mg_order,       \* the chunk ids in the order of the list aligned_files
    mg_i,           \* 1-based position of the merge loop
    mg_merged,      \* the list all_segments the merge builds
    mg_starts,      \* per chunk index: start_time_ms of its metadata entry
    \* ---- run_neuroai_pipeline (ai_engine.py), Phase 2 loop ----
    en_pc,          \* "idle" | "whisper" | "diar" | "align" | "load" | "sorted" | "raised"
    en_n,           \* number of chunks the splitter returned
    en_k,           \* 1-based position of the loop
    en_whisper,     \* chunks whose whisper file exists
    en_diar,        \* chunks whose diar file exists
    en_aligned,     \* chunks whose aligned file exists
    en_segments,    \* the list all_aligned_segments
    \* ---- one call of process_batch_safe / analyze_batch_safe ----
    rt_pc,          \* "idle" | "call" | "sleep" | "exhausted" | "returned"
    rt_who,         \* "stitch" (process_batch_safe) | "flag" (analyze_batch_safe)
    rt_attempt,     \* loop variable attempt
    rt_calls,       \* history: how each call of create ended
    rt_slept,       \* history: the seconds of each time.sleep
    rt_result,      \* what the function returned (Absent while it has not)
    \* ---- FileManager.save_json at the end of NeuroAIPipeline.run ----
    sv_pc,          \* "idle" | "save" | "saved" | "done"
    sv_run,         \* number of the run on this case
    sv_data,        \* final_data of the run
    sv_before,      \* output/transcript.json as the run found it
    sv_transcript,  \* the file output/transcript.json
    sv_backups,     \* the files output/transcript.bak_<ts>.json, oldest first
    sv_saved,       \* what save_json returned
    sv_result       \* what run returned (Absent while it has not returned)

vars == <<st_pc, raw_data, st_input, st_i, st_attempt, final_results, st_log,
          st_groups_left,
          fl_pc, data, fl_input, fl_i, fl_attempt, fl_log, fl_items_left,
          al_pc, w_segs, d_segs, chunk_offset_sec, aligned_data,
          sp_pc, sp_audio, sp_num_chunks, output_files,
          ov_pc, ov_run, ov_audio, ov_num_chunks, force_reprocess, chunk_files,
          whisper_json, diar_json, aligned_json, final_transcript,
          chunk_metadata, ov_k, aligned_files, all_segments,
          stitched_segments, final_segments, ov_calls, ov_history,
          rp_pc, rp_audio, rp_num_chunks, rp_chunk_metadata, rp_aligned,
          rp_final_data, rp_calls, rp_transcript, rp_result, rp_error,
          status_file, polled, sr_pc, sw_pc, sw_data, sw_saved,
          up_pc, up_case,
          gpu_pc, gpu_n, gpu_k, resident, gpu_outcomes,
          mg_pc, mg_n, mg_resumed, mg_order, mg_i, mg_merged, mg_starts,
          en_pc, en_n, en_k, en_whisper, en_diar, en_aligned, en_segments,
          rt_pc, rt_who, rt_attempt, rt_calls, rt_slept, rt_result,
          sv_pc, sv_run, sv_data, sv_before, sv_transcript, sv_backups,
          sv_saved, sv_result>>

st_vars == <<st_pc, raw_data, st_input, st_i, st_attempt, final_results, st_log,
             st_groups_left>>
fl_vars == <<fl_pc, data, fl_input, fl_i, fl_attempt, fl_log, fl_items_left>>
al_vars == <<al_pc, w_segs, d_segs, chunk_offset_sec, aligned_data>>
sp_vars == <<sp_pc, sp_audio, sp_num_chunks, output_files>>
ov_disk == <<chunk_files, whisper_json, diar_json, aligned_json, final_transcript>>
ov_memory == <<chunk_metadata, ov_k, aligned_files, all_segments,
               stitched_segments, final_segments>>
ov_vars == <<ov_pc, ov_run, ov_audio, ov_num_chunks, force_reprocess, ov_disk,
             ov_memory, ov_calls, ov_history>>
rp_vars == <<rp_pc, rp_audio, rp_num_chunks, rp_chunk_metadata, rp_aligned,
             rp_final_data, rp_calls, rp_transcript, rp_result, rp_error>>
sf_vars == <<status_file, polled, sr_pc, sw_pc, sw_data, sw_saved>>
up_vars == <<up_pc, up_case>>
gpu_vars == <<gpu_pc, gpu_n, gpu_k, resident, gpu_outcomes>>
mg_vars == <<mg_pc, mg_n, mg_resumed, mg_order, mg_i, mg_merged, mg_starts>>
en_vars == <<en_pc, en_n, en_k, en_whisper, en_diar, en_aligned, en_segments>>
rt_vars == <<rt_pc, rt_who, rt_attempt, rt_calls, rt_slept, rt_result>>
sv_vars == <<sv_pc, sv_run, sv_data, sv_before, sv_transcript, sv_backups,
             sv_saved, sv_result>>
aux_vars == <<rt_vars, sv_vars>>
ext_vars == <<up_vars, gpu_vars, mg_vars, en_vars, aux_vars>>

(***************************************************************************)
(* Bounds of the model                                                     *)
(***************************************************************************)
MaxSegs == 6        \* longest Stitcher input (6 segments = two windows)
MaxGroups == 2      \* groups the service returns over one Stitcher run
MaxSents == 6       \* longest Flagger input (6 sentences = two batches)
MaxAssessments == 2 \* assessments the service returns over one Flagger run
MaxAssessed == 2    \* sentences of a batch (from its front) the service assesses
MaxTurns == 3       \* diarization turns of a chunk
MaxSaves == 3       \* runs of NeuroAIPipeline.run on one case

(***************************************************************************)
(* Generic helpers                                                         *)
(***************************************************************************)
Absent == "absent"
AbsentNum == -1
NoneVal == "None"

Min(x, y) == IF x < y THEN x ELSE y
Max(x, y) == IF x > y THEN x ELSE y

Range(s) == {s[k] : k \in 1..Len(s)}

RECURSIVE Flatten(_)
\* "".join(list of texts)
Flatten(ss) == IF ss = <<>> THEN <<>> ELSE Head(ss) \o Flatten(Tail(ss))

\* Python slice s[lo : lo + n] with a 0-based lo
Slice(s, lo, n) == SubSeq(s, lo + 1, Min(Len(s), lo + n))

(***************************************************************************)
(* difflib.SequenceMatcher(None, a, b).ratio(), as check_hallucination     *)
(* uses it.  Texts here are far shorter than the 200 characters at which   *)
(* the autojunk heuristic starts, and isjunk is None, so no element of b   *)
(* is junk.  Indices are 0-based and ranges half-open, as in difflib.      *)
(***************************************************************************)
RECURSIVE CommonRun(_, _, _, _, _, _)
\* length of the longest common run of a[i:ahi] and b[j:bhi] starting at i, j
CommonRun(a, b, i, j, ahi, bhi) ==
    IF i < ahi /\ j < bhi /\ a[i + 1] = b[j + 1]
    THEN 1 + CommonRun(a, b, i + 1, j + 1, ahi, bhi)
    ELSE 0

\* the least element of a non-empty set of integers
Least(S) == CHOOSE x \in S : \A y \in S : x <= y

\* find_longest_match: <<i, j, k>> with a[i:i+k] = b[j:j+k], k maximal, then
\* i minimal, then j minimal; <<alo, blo, 0>> when nothing matches.
find_longest_match(a, b, alo, ahi, blo, bhi) ==
    LET pairs == (alo..(ahi - 1)) \X (blo..(bhi - 1))
        sizes == {CommonRun(a, b, p[1], p[2], ahi, bhi) : p \in pairs} \cup {0}
        k == CHOOSE x \in sizes : \A y \in sizes : y <= x
    IN  IF k = 0 THEN <<alo, blo, 0>>
        ELSE LET i == Least({p[1] : p \in {q \in pairs :
                               CommonRun(a, b, q[1], q[2], ahi, bhi) = k}})
                 j == Least({c \in blo..(bhi - 1) :
                               CommonRun(a, b, i, c, ahi, bhi) = k})
             IN  <<i, j, k>>

RECURSIVE MatchedChars(_, _, _, _, _, _)
\* sum of the sizes of get_matching_blocks() over a[alo:ahi], b[blo:bhi]
MatchedChars(a, b, alo, ahi, blo, bhi) ==
    LET m == find_longest_match(a, b, alo, ahi, blo, bhi)
        i == m[1]
        j == m[2]
        k == m[3]
    IN  IF k = 0 THEN 0
        ELSE k
             + (IF alo < i /\ blo < j
                THEN MatchedChars(a, b, alo, i, blo, j) ELSE 0)
             + (IF i + k < ahi /\ j + k < bhi
                THEN MatchedChars(a, b, i + k, ahi, j + k, bhi) ELSE 0)

\* ratio() = 2.0 * matches / (len(a) + len(b)), 1.0 when both are empty.
\* Kept as the exact fraction <<numerator, denominator>>.
SequenceMatcherRatio(a, b) ==
    LET length == Len(a) + Len(b)
    IN  IF length = 0 THEN <<1, 1>>
        ELSE <<2 * MatchedChars(a, b, 0, Len(a), 0, Len(b)), length>>

(***************************************************************************)
(* Texts of the model: what the recognizer wrote for a segment and what    *)
(* the completion service proposes for a group                             *)
(***************************************************************************)
SegText(k) == IF k % 2 = 1 THEN <<"a", "b">> ELSE <<"c", "d">>

ProposedTexts ==
    { <<"a", "b">>,                                \* a fragment, or half a merge
      <<"a", "b", "c", "x", "x", "x">>,              \* ratio 0.6 against "abcd"
      <<"a", "b", "c", "d", "a", "b", "c", "d">> }   \* the merge said twice

\* the ratios of the texts above, computed once: <<original, proposed, ratio>>
KnownRatios ==
    LET segs == {SegText(1), SegText(2)}
        originals == segs \cup {t[1] \o t[2] : t \in segs \X segs}
    IN  {<<p[1], p[2], SequenceMatcherRatio(p[1], p[2])>> : p \in originals \X ProposedTexts}

\* check_hallucination(original_text, rewritten_text)
check_hallucination(original_text, rewritten_text) ==
    LET known == {e \in KnownRatios : e[1] = original_text /\ e[2] = rewritten_text}
    IN  IF known # {}
        THEN (CHOOSE e \in known : TRUE)[3]
        ELSE SequenceMatcherRatio(original_text, rewritten_text)

\* the threshold written with <= instead of <
SimilarityBelowThreshold_Inclusive(similarity) == 10 * similarity[1] <= 6 * similarity[2]

\* similarity < 0.6 on the fraction: n/d < 6/10
SimilarityBelowThreshold(similarity) == 10 * similarity[1] < 6 * similarity[2]

\* is_risky = (similarity < 0.6) or (len_ratio > 1.5) or (len_ratio < 0.5)
\* with len_ratio = len(sent.text) / (len(original_text_combined) + 1)
is_risky(similarity, proposed_len, original_len) ==
    \/ SimilarityBelowThreshold(similarity)
    \/ 2 * proposed_len > 3 * (original_len + 1)
    \/ 2 * proposed_len < original_len + 1

\* round(similarity, 2) in hundredths.  A tie n/d = x.xx5 has, for texts this
\* short, a denominator of 8 after reduction, which a float holds exactly, so
\* Python rounds it half-to-even.
Round2(similarity) ==
    LET n == 100 * similarity[1]
        d == similarity[2]
        q == n \div d
        r == n % d
    IN  IF 2 * r > d THEN q + 1
        ELSE IF 2 * r < d THEN q
        ELSE IF q % 2 = 0 THEN q ELSE q + 1

(***************************************************************************)
(* Stitcher: backend/core/stitch.py                                        *)
(***************************************************************************)
WINDOW_SIZE == 5
max_retries == 3

\* id written by the Aligner: f"chunk_{int(chunk_offset_sec)}_{idx}"
AlignedId(offset, idx) == <<"chunk", offset \div 1000, idx>>

\* an id no aligned segment of the case carries
ForeignId == <<"chunk", 99, 99>>

\* the lookup table built over the whole input instead of the window
batch_map_of_WholeInput(batch) ==
    [id \in {raw_data[k].id : k \in 1..Len(raw_data)} |->
        raw_data[CHOOSE k \in 1..Len(raw_data) : raw_data[k].id = id]]

\* batch_map = {seg['id']: seg for seg in batch}: the last segment with an id wins
batch_map_of(batch) ==
    [id \in {batch[k].id : k \in 1..Len(batch)} |->
        batch[CHOOSE k \in 1..Len(batch) :
                 /\ batch[k].id = id
                 /\ \A m \in 1..Len(batch) : batch[m].id = id => m <= k]]

\* valid_ids = [bid for bid in sent.source_ids if bid in batch_map]
valid_ids_of(source_ids, batch_map) ==
    SelectSeq(source_ids, LAMBDA bid : bid \in DOMAIN batch_map)

\* final_item built from an accepted group (stitch.py 94-118)
StitchedItem(sent, valid_ids, batch_map, sentence_id) ==
    LET original_text_combined ==
            Flatten([k \in 1..Len(valid_ids) |-> batch_map[valid_ids[k]].text])
        similarity == check_hallucination(original_text_combined, sent.text)
        risky == is_risky(similarity, Len(sent.text), Len(original_text_combined))
    IN  [start |-> batch_map[valid_ids[1]].start,
         end |-> batch_map[valid_ids[Len(valid_ids)]].end,
         speaker |-> batch_map[valid_ids[1]].speaker,
         text |-> IF risky THEN original_text_combined ELSE sent.text,
         source_ids |-> valid_ids,
         verification_score |-> Round2(similarity),
         status |-> IF risky THEN "Rejected_Raw_Kept" ELSE "Verified",
         sentence_id |-> sentence_id]

\* the fallback item left with the status of an accepted merge
RawFallbackItem_Verified(item, sentence_id) ==
    [start |-> item.start,
     end |-> item.end,
     speaker |-> item.speaker,
     text |-> item.text,
     source_ids |-> <<item.id>>,
     verification_score |-> 100,
     status |-> "Verified",
     sentence_id |-> sentence_id]

\* final_item built from one segment of a window whose call failed (128-137)
RawFallbackItem(item, sentence_id) ==
    [start |-> item.start,
     end |-> item.end,
     speaker |-> item.speaker,
     text |-> item.text,
     source_ids |-> <<item.id>>,
     verification_score |-> 100,
     status |-> "Raw_Fallback",
     sentence_id |-> sentence_id]

RECURSIVE ProcessSentences(_, _, _, _, _)
\* for sent in result.sentences: ... final_results.append(final_item)
\* out = [res |-> the results so far, log |-> their history]
ProcessSentences(sentences, batch_map, window, out, k) ==
    IF k > Len(sentences) THEN out
    ELSE LET sent == sentences[k]
             valid_ids == valid_ids_of(sent.source_ids, batch_map)
         IN  IF valid_ids = <<>>
             THEN ProcessSentences(sentences, batch_map, window, out, k + 1)
             ELSE ProcessSentences(sentences, batch_map, window,
                     [res |-> Append(out.res,
                                 StitchedItem(sent, valid_ids, batch_map, Len(out.res))),
                      log |-> Append(out.log,
                                 [window |-> window, kind |-> "group",
                                  proposed |-> sent.text,
                                  named |-> sent.source_ids])],
                     k + 1)

RECURSIVE FallbackItems(_, _, _, _)
\* for item in batch: ... final_results.append(final_item)
FallbackItems(batch, window, out, k) ==
    IF k > Len(batch) THEN out
    ELSE FallbackItems(batch, window,
            [res |-> Append(out.res, RawFallbackItem(batch[k], Len(out.res))),
             log |-> Append(out.log,
                        [window |-> window, kind |-> "fallback", proposed |-> <<>>,
                         named |-> <<>>])],
            k + 1)

\* the fallback loop also writes three fields into the input dictionaries
\* (stitch.py 125-127); sentence_id is len(final_results) at that iteration
FallbackMarked(rd, i, results_len) ==
    [k \in 1..Len(rd) |->
        IF k > i /\ k <= i + WINDOW_SIZE
        THEN [rd[k] EXCEPT !.verification_score = 100,
                           !.status = "Raw_Fallback",
                           !.sentence_id = results_len + (k - i - 1)]
        ELSE rd[k]]

\* ---- inputs of the Stitcher ----
SpeakerPatterns == {"same", "alternating"}
SegSpeaker(pattern, k) ==
    IF pattern = "alternating" /\ k % 2 = 0 THEN "SPEAKER_01" ELSE "SPEAKER_00"

\* the service names the first two segments of a window only, so lengths
\* between two and a full window add nothing
InputLengths == {1, 2, MaxSegs}

AlignedInput(n, pattern) ==
    [k \in 1..n |->
        [id |-> AlignedId(0, k - 1),
         start |-> (k - 1) * 1000,
         end |-> k * 1000,
         speaker |-> SegSpeaker(pattern, k),
         text |-> SegText(k),
         flag |-> "auto",
         verification_score |-> AbsentNum,
         status |-> Absent,
         sentence_id |-> AbsentNum]]

\* ---- replies of the completion service (DatasetEntry) ----
\* the id of a segment of the other window of a two-window input
OtherWindowId(batch) ==
    IF batch[1].id = AlignedId(0, 0) THEN AlignedId(0, WINDOW_SIZE) ELSE AlignedId(0, 0)

\* the source_ids of a group: none, one or two segments of the window (its
\* first two), in either order, repeated, or mixed with an id that is not in
\* the window (an id of no segment, or of a segment of the other window)
SourceIdLists(batch) ==
    LET a == batch[1].id
        b == batch[Min(2, Len(batch))].id
    IN  { <<>>, <<a>>, <<b>>, <<a, b>>, <<b, a>>, <<a, a>>,
          <<a, ForeignId>>, <<ForeignId>>, <<OtherWindowId(batch), a>> }

VerifiedSentences(batch) == [text : ProposedTexts, source_ids : SourceIdLists(batch)]

ServiceReplies(batch, len) == [1..len -> VerifiedSentences(batch)]

\* ---- actions ----
CurrentBatch == Slice(raw_data, st_i, WINDOW_SIZE)

StitchAdvance ==
    /\ st_i' = st_i + WINDOW_SIZE
    /\ st_attempt' = 0
    /\ st_pc' = IF st_i + WINDOW_SIZE < Len(raw_data) THEN "call" ELSE "done"

\* an attempt raises (timeout or any other exception) and the loop retries
StitchAttemptFails ==
    /\ st_pc = "call"
    /\ st_attempt + 1 < max_retries
    /\ st_attempt' = st_attempt + 1
    /\ UNCHANGED <<st_pc, raw_data, st_input, st_i, final_results, st_log,
                   st_groups_left>>
    /\ UNCHANGED <<fl_vars, al_vars, sp_vars, ov_vars, rp_vars, sf_vars, ext_vars>>

\* the last attempt raises: process_batch_safe returns None, raw fallback
StitchWindowFails ==
    /\ st_pc = "call"
    /\ st_attempt + 1 = max_retries
    /\ LET out == FallbackItems(CurrentBatch, st_i,
                                [res |-> final_results, log |-> st_log], 1)
       IN  /\ final_results' = out.res
           /\ st_log' = out.log
    /\ raw_data' = FallbackMarked(raw_data, st_i, Len(final_results))
    /\ StitchAdvance
    /\ UNCHANGED <<st_input, st_groups_left>>
    /\ UNCHANGED <<fl_vars, al_vars, sp_vars, ov_vars, rp_vars, sf_vars, ext_vars>>

\* an attempt returns: process_batch_safe leaves its retry loop with resp
StitchAttemptSucceeds ==
    /\ st_pc = "call"
    /\ st_attempt < max_retries
    /\ st_pc' = "reply"
    /\ st_attempt' = 0
    /\ UNCHANGED <<raw_data, st_input, st_i, final_results, st_log, st_groups_left>>
    /\ UNCHANGED <<fl_vars, al_vars, sp_vars, ov_vars, rp_vars, sf_vars, ext_vars>>

\* the DatasetEntry the call returned is processed, every group of it
StitchWindowReplies ==
    /\ st_pc = "reply"
    /\ \E len \in 0..st_groups_left : \E result \in ServiceReplies(CurrentBatch, len) :
          LET out == ProcessSentences(result, batch_map_of(CurrentBatch), st_i,
                                      [res |-> final_results, log |-> st_log], 1)
          IN  /\ final_results' = out.res
              /\ st_log' = out.log
              /\ st_groups_left' = st_groups_left - Len(result)
    /\ StitchAdvance
    /\ UNCHANGED <<raw_data, st_input>>
    /\ UNCHANGED <<fl_vars, al_vars, sp_vars, ov_vars, rp_vars, sf_vars, ext_vars>>

FlaggerIdle ==
    /\ fl_pc = "idle" /\ data = <<>> /\ fl_input = <<>> /\ fl_i = 0
    /\ fl_attempt = 0 /\ fl_log = <<>> /\ fl_items_left = 0

AlignerIdle ==
    /\ al_pc = "idle" /\ w_segs = <<>> /\ d_segs = <<>>
    /\ chunk_offset_sec = 0 /\ aligned_data = <<>>

StitcherIdle ==
    /\ st_pc = "idle" /\ raw_data = <<>> /\ st_input = <<>> /\ st_i = 0
    /\ st_attempt = 0 /\ final_results = <<>> /\ st_log = <<>>
    /\ st_groups_left = 0

\* a file AudioSegment.from_file cannot decode
UndecodableAudio ==
    [decodable |-> FALSE, total_duration |-> 0, silent |-> <<>>, profile |-> "flat"]

SegmenterIdle ==
    /\ sp_pc = "idle" /\ sp_audio = UndecodableAudio /\ sp_num_chunks = 1
    /\ output_files = <<>>

\* chunk positions of a case directory
ChunkSlots == 1..2

\* a JSON file: not there, opened for writing and not finished (it does not
\* parse), or written with its content
AbsentJson == [state |-> Absent, content |-> <<>>]
TornJson == [state |-> "torn", content |-> <<>>]
Json(content) == [state |-> "ok", content |-> content]
Exists(file) == file.state # Absent
Readable(file) == file.state = "ok"

\* final_transcript.json, the same way
AbsentTranscript ==
    [state |-> Absent, processed_at |-> 0, total_segments |-> 0, segments |-> <<>>]
TornTranscript ==
    [state |-> "torn", processed_at |-> 0, total_segments |-> 0, segments |-> <<>>]

NoCalls == [recognition |-> 0, diarization |-> 0, completion |-> 0]
NoHistory ==
    [interrupted |-> FALSE, adapter_failed |-> FALSE, first_completed |-> FALSE,
     first_interrupted |-> FALSE, first_transcript |-> AbsentTranscript]

OverallIdle ==
    /\ ov_pc = "idle" /\ ov_run = 0 /\ ov_audio = UndecodableAudio
    /\ ov_num_chunks = 1 /\ force_reprocess = FALSE
    /\ chunk_files = <<>>
    /\ whisper_json = [c \in ChunkSlots |-> AbsentJson]
    /\ diar_json = [c \in ChunkSlots |-> AbsentJson]
    /\ aligned_json = [c \in ChunkSlots |-> AbsentJson]
    /\ final_transcript = AbsentTranscript
    /\ chunk_metadata = <<>> /\ ov_k = 0 /\ aligned_files = <<>>
    /\ all_segments = <<>> /\ stitched_segments = <<>> /\ final_segments = <<>>
    /\ ov_calls = NoCalls /\ ov_history = NoHistory

RunnerIdle ==
    /\ rp_pc = "idle" /\ rp_audio = UndecodableAudio /\ rp_num_chunks = 1
    /\ rp_chunk_metadata = <<>> /\ rp_aligned = <<>> /\ rp_final_data = <<>>
    /\ rp_calls = NoCalls /\ rp_transcript = AbsentJson
    /\ rp_result = Absent /\ rp_error = Absent

\* status.json: not there, opened for writing and not finished, or a record
AbsentStatus == [state |-> Absent, step |-> "", progress |-> 0, message |-> ""]
TornStatus == [state |-> "torn", step |-> "", progress |-> 0, message |-> ""]
\* get_status has not been called yet
NotPolled == [state |-> "none", step |-> "", progress |-> 0, message |-> ""]

StatusIdle ==
    /\ status_file = AbsentStatus /\ polled = NotPolled /\ sr_pc = "idle"
    /\ sw_pc = "idle" /\ sw_data = AbsentStatus /\ sw_saved = {}

Uploads == {1, 2}
UploadIdle ==
    /\ up_pc = [u \in Uploads |-> "none"]
    /\ up_case = [u \in Uploads |-> Absent]

AdaptersIdle ==
    /\ gpu_pc = "idle" /\ gpu_n = 0 /\ gpu_k = 0
    /\ resident = {} /\ gpu_outcomes = <<>>

MergeIdle ==
    /\ mg_pc = "idle" /\ mg_n = 0 /\ mg_resumed = FALSE
    /\ mg_order = <<>> /\ mg_i = 0 /\ mg_merged = <<>> /\ mg_starts = <<>>

EngineIdle ==
    /\ en_pc = "idle" /\ en_n = 0 /\ en_k = 0
    /\ en_whisper = {} /\ en_diar = {} /\ en_aligned = {}
    /\ en_segments = <<>>

RetryIdle ==
    /\ rt_pc = "idle" /\ rt_who = Absent /\ rt_attempt = 0
    /\ rt_calls = <<>> /\ rt_slept = <<>> /\ rt_result = Absent

SaveIdle ==
    /\ sv_pc = "idle" /\ sv_run = 0 /\ sv_data = <<>>
    /\ sv_before = AbsentJson /\ sv_transcript = AbsentJson
    /\ sv_backups = <<>> /\ sv_saved = FALSE /\ sv_result = Absent

AuxIdle == RetryIdle /\ SaveIdle

ExtIdle == UploadIdle /\ AdaptersIdle /\ MergeIdle /\ EngineIdle /\ AuxIdle

InitStitch ==
    /\ \E n \in InputLengths, pattern \in SpeakerPatterns :
          /\ raw_data = AlignedInput(n, pattern)
          /\ st_input = AlignedInput(n, pattern)
    /\ st_pc = "call"
    /\ st_i = 0
    /\ st_attempt = 0
    /\ final_results = <<>>
    /\ st_log = <<>>
    /\ st_groups_left = MaxGroups
    /\ FlaggerIdle
    /\ AlignerIdle
    /\ SegmenterIdle
    /\ OverallIdle
    /\ RunnerIdle
    /\ StatusIdle
    /\ ExtIdle

NextStitch ==
    \/ StitchAttemptFails
    \/ StitchWindowFails
    \/ StitchAttemptSucceeds
    \/ StitchWindowReplies

SpecStitch == InitStitch /\ [][NextStitch]_vars

(***************************************************************************)
(* Anomaly Flagger: backend/core/flag.py                                   *)
(***************************************************************************)
batch_size == 5
flag_max_retries == 3

\* f"[{assessment.issue_category}] {assessment.reason}"
FormatReviewReason(issue_category, reason) == <<"[", issue_category, "] ", reason>>

\* the initialisation loop (flag.py 99-104) on the sentence at 0-based idx
InitFlagFields(item, idx) ==
    [start |-> item.start,
     end |-> item.end,
     speaker |-> item.speaker,
     text |-> item.text,
     source_ids |-> item.source_ids,
     verification_score |-> item.verification_score,
     status |-> item.status,
     sentence_id |-> IF item.sentence_id = AbsentNum THEN idx ELSE item.sentence_id,
     needs_review |-> FALSE,
     review_reason |-> <<NoneVal>>,
     suggested_correction |-> <<NoneVal>>]

\* the lookup table keeping the first assessment of an id instead of the last
assessment_map_of_FirstWins(assessments) ==
    [sid \in {assessments[k].sentence_id : k \in 1..Len(assessments)} |->
        assessments[CHOOSE k \in 1..Len(assessments) :
                       /\ assessments[k].sentence_id = sid
                       /\ \A m \in 1..Len(assessments) :
                             assessments[m].sentence_id = sid => k <= m]]

\* assessment_map = {a.sentence_id: a for a in report.assessments}: last wins
assessment_map_of(assessments) ==
    [sid \in {assessments[k].sentence_id : k \in 1..Len(assessments)} |->
        assessments[CHOOSE k \in 1..Len(assessments) :
                       /\ assessments[k].sentence_id = sid
                       /\ \A m \in 1..Len(assessments) :
                             assessments[m].sentence_id = sid => m <= k]]

\* the flagging loop writing the suggested correction over the text
ApplyAssessment_RewritesText(item, assessment_map) ==
    IF item.sentence_id \in DOMAIN assessment_map
       /\ assessment_map[item.sentence_id].is_suspicious
    THEN LET assessment == assessment_map[item.sentence_id]
         IN  [item EXCEPT
                 !.needs_review = TRUE,
                 !.review_reason = FormatReviewReason(assessment.issue_category,
                                                      assessment.reason),
                 !.suggested_correction = assessment.suggested_correction,
                 !.text = assessment.suggested_correction]
    ELSE item

\* the body of "for item in batch" when a report came back (flag.py 123-133)
ApplyAssessment(item, assessment_map) ==
    IF item.sentence_id \in DOMAIN assessment_map
       /\ assessment_map[item.sentence_id].is_suspicious
    THEN LET assessment == assessment_map[item.sentence_id]
         IN  [item EXCEPT
                 !.needs_review = TRUE,
                 !.review_reason = FormatReviewReason(assessment.issue_category,
                                                      assessment.reason),
                 !.suggested_correction = assessment.suggested_correction]
    ELSE item

\* the failure branch forgetting to mark the sentence
MarkAnalysisFailed_Unmarked(item) == item

\* the body of "for item in batch" when every attempt failed (flag.py 139-140)
MarkAnalysisFailed(item) == [item EXCEPT !.review_reason = <<"Analysis_Failed">>]

InBatch(k, i) == k > i /\ k <= i + batch_size

\* ---- inputs of the Flagger ----
RepeatedPhrase == <<"q", "q", "q", "q">>
SentText(k) == IF k % 2 = 1 THEN RepeatedPhrase ELSE <<"a", "b">>
SentenceIdModes == {"dense", "absent"}
SentLengths == {1, 2, MaxSents}

StitchedInput(n, mode) ==
    [k \in 1..n |->
        [start |-> (k - 1) * 1000,
         end |-> k * 1000,
         speaker |-> "SPEAKER_00",
         text |-> SentText(k),
         source_ids |-> <<AlignedId(0, k - 1)>>,
         verification_score |-> 100,
         status |-> "Verified",
         sentence_id |-> IF mode = "dense" THEN k - 1 ELSE AbsentNum]]

\* ---- replies of the completion service (HealthReport) ----
\* a sentence_id no sentence of an input of n sentences carries
ForeignSentenceId(n) == n + 90

AssessedIds(i, n) ==
    {k - 1 : k \in (i + 1)..Min(n, i + MaxAssessed)} \cup {ForeignSentenceId(n)}

SentenceHealths(i, n) ==
    [sentence_id : AssessedIds(i, n),
     is_suspicious : BOOLEAN,
     issue_category : {"Likely_ASR_Error"},
     reason : {"sounds wrong"},
     suggested_correction : {<<NoneVal>>, <<"q">>}]

HealthReports(i, n, len) == [1..len -> SentenceHealths(i, n)]

\* ---- actions ----
\* entry of run_anomaly_detector: the initialisation loop
FlagStart ==
    /\ fl_pc = "start"
    /\ data' = [k \in 1..Len(data) |-> InitFlagFields(data[k], k - 1)]
    /\ fl_pc' = IF Len(data) > 0 THEN "call" ELSE "done"
    /\ UNCHANGED <<fl_input, fl_i, fl_attempt, fl_log, fl_items_left>>
    /\ UNCHANGED <<st_vars, al_vars, sp_vars, ov_vars, rp_vars, sf_vars, ext_vars>>

FlagAdvance ==
    /\ fl_i' = fl_i + batch_size
    /\ fl_attempt' = 0
    /\ fl_pc' = IF fl_i + batch_size < Len(data) THEN "call" ELSE "done"

\* an attempt raises and the loop of analyze_batch_safe retries
FlagAttemptFails ==
    /\ fl_pc = "call"
    /\ fl_attempt + 1 < flag_max_retries
    /\ fl_attempt' = fl_attempt + 1
    /\ UNCHANGED <<fl_pc, data, fl_input, fl_i, fl_log, fl_items_left>>
    /\ UNCHANGED <<st_vars, al_vars, sp_vars, ov_vars, rp_vars, sf_vars, ext_vars>>

\* the last attempt raises: analyze_batch_safe returns None
FlagBatchFails ==
    /\ fl_pc = "call"
    /\ fl_attempt + 1 = flag_max_retries
    /\ data' = [k \in 1..Len(data) |->
                   IF InBatch(k, fl_i) THEN MarkAnalysisFailed(data[k]) ELSE data[k]]
    /\ fl_log' = Append(fl_log, [offset |-> fl_i, failed |-> TRUE, assessments |-> <<>>])
    /\ FlagAdvance
    /\ UNCHANGED <<fl_input, fl_items_left>>
    /\ UNCHANGED <<st_vars, al_vars, sp_vars, ov_vars, rp_vars, sf_vars, ext_vars>>

\* an attempt returns: analyze_batch_safe leaves its retry loop with resp
FlagAttemptSucceeds ==
    /\ fl_pc = "call"
    /\ fl_attempt < flag_max_retries
    /\ fl_pc' = "reply"
    /\ fl_attempt' = 0
    /\ UNCHANGED <<data, fl_input, fl_i, fl_log, fl_items_left>>
    /\ UNCHANGED <<st_vars, al_vars, sp_vars, ov_vars, rp_vars, sf_vars, ext_vars>>

\* the HealthReport the call returned is applied to the batch
FlagBatchReport ==
    /\ fl_pc = "reply"
    /\ \E len \in 0..fl_items_left : \E assessments \in HealthReports(fl_i, Len(data), len) :
          LET assessment_map == assessment_map_of(assessments)
          IN  /\ data' = [k \in 1..Len(data) |->
                             IF InBatch(k, fl_i)
                             THEN ApplyAssessment(data[k], assessment_map)
                             ELSE data[k]]
              /\ fl_log' = Append(fl_log, [offset |-> fl_i, failed |-> FALSE,
                                           assessments |-> assessments])
              /\ fl_items_left' = fl_items_left - len
    /\ FlagAdvance
    /\ UNCHANGED fl_input
    /\ UNCHANGED <<st_vars, al_vars, sp_vars, ov_vars, rp_vars, sf_vars, ext_vars>>

InitFlag ==
    /\ \E n \in SentLengths, mode \in SentenceIdModes :
          /\ data = StitchedInput(n, mode)
          /\ fl_input = StitchedInput(n, mode)
    /\ fl_pc = "start"
    /\ fl_i = 0
    /\ fl_attempt = 0
    /\ fl_log = <<>>
    /\ fl_items_left = MaxAssessments
    /\ StitcherIdle
    /\ AlignerIdle
    /\ SegmenterIdle
    /\ OverallIdle
    /\ RunnerIdle
    /\ StatusIdle
    /\ ExtIdle

NextFlag ==
    \/ FlagStart
    \/ FlagAttemptFails
    \/ FlagBatchFails
    \/ FlagAttemptSucceeds
    \/ FlagBatchReport

SpecFlag == InitFlag /\ [][NextFlag]_vars

(***************************************************************************)
(* Aligner: PipelinePhase2.run_alignment, backend/core/pipeline.py         *)
(***************************************************************************)
RECURSIVE AccumulateScores(_, _, _, _)
\* the loop "for d in d_segs" (pipeline.py 220-228).  speaker_scores is a
\* dict: a sequence of <<label, score>> in insertion order.
AccumulateScores(w, turns, scores, k) ==
    IF k > Len(turns) THEN scores
    ELSE LET d == turns[k]
             inter_start == Max(w.start, d.start)
             inter_end == Min(w.end, d.end)
             duration == inter_end - inter_start
             spk == d.speaker
             known == \E m \in 1..Len(scores) : scores[m][1] = spk
         IN  IF inter_end > inter_start
             THEN AccumulateScores(w, turns,
                     IF known
                     THEN [m \in 1..Len(scores) |->
                              IF scores[m][1] = spk
                              THEN <<spk, scores[m][2] + duration>>
                              ELSE scores[m]]
                     ELSE Append(scores, <<spk, 0 + duration>>),
                     k + 1)
             ELSE AccumulateScores(w, turns, scores, k + 1)

\* the maximum taken with >= while scanning: the last of the best keys wins
MaxByScore_LastWins(scores) ==
    scores[CHOOSE m \in 1..Len(scores) :
              /\ \A o \in 1..Len(scores) : scores[o][2] <= scores[m][2]
              /\ \A o \in (m + 1)..Len(scores) : scores[o][2] < scores[m][2]][1]

\* max(speaker_scores, key=speaker_scores.get): the first key, in insertion
\* order, whose score no other key exceeds
MaxByScore(scores) ==
    scores[CHOOSE m \in 1..Len(scores) :
              /\ \A o \in 1..Len(scores) : scores[o][2] <= scores[m][2]
              /\ \A o \in 1..(m - 1) : scores[o][2] < scores[m][2]][1]

best_speaker_of(w, turns) ==
    LET speaker_scores == AccumulateScores(w, turns, <<>>, 1)
    IN  IF speaker_scores # <<>> THEN MaxByScore(speaker_scores) ELSE "Unknown"

\* "review_needed" if best_speaker == "Unknown" else "auto"
flag_of(best_speaker) == IF best_speaker = "Unknown" THEN "review_needed" ELSE "auto"

\* round(x, 2) of a time in seconds, on milliseconds: to the nearest 10 ms.
\* A time ending in 5 ms is no exact float, so its direction depends on the
\* float next to it; half-to-even stands for it here and no input ends in 5.
RoundTime(t) ==
    LET q == t \div 10
        r == t % 10
    IN  IF r > 5 \/ (r = 5 /\ q % 2 = 1) THEN 10 * (q + 1) ELSE 10 * q

\* the dictionary appended for the segment at 0-based idx (pipeline.py 235-242)
AlignedSegment(w, idx, turns, offset) ==
    LET best_speaker == best_speaker_of(w, turns)
    IN  [id |-> AlignedId(offset, idx),
         start |-> RoundTime(w.start + offset),
         end |-> RoundTime(w.end + offset),
         speaker |-> best_speaker,
         text |-> w.text,
         flag |-> flag_of(best_speaker)]

\* ---- inputs of the Aligner ----
TimePoints == {0, 1000, 2000, 3000}
Intervals == {iv \in TimePoints \X TimePoints : iv[1] < iv[2]}
DiarLabels == {"SPEAKER_00", "SPEAKER_01", "Unknown"}
Turns == {[start |-> iv[1], end |-> iv[2], speaker |-> l] : iv \in Intervals, l \in DiarLabels}
ChunkOffsets == {0, 30000}

\* the diarizer lists its turns by start time
TimeOrdered(turns) == \A k \in 1..(Len(turns) - 1) : turns[k].start <= turns[k + 1].start

Recognized(iv) == [start |-> iv[1], end |-> iv[2], text |-> <<"a", "b">>]

WhisperOutputs ==
    { <<Recognized(<<0, 1000>>)>>,
      <<Recognized(<<4, 1996>>)>>,
      <<Recognized(<<1000, 3000>>)>>,
      <<Recognized(<<0, 1000>>), Recognized(<<1000, 3000>>)>> }

\* ---- action ----
RunAlignment ==
    /\ al_pc = "ready"
    /\ aligned_data' = [k \in 1..Len(w_segs) |->
                           AlignedSegment(w_segs[k], k - 1, d_segs, chunk_offset_sec)]
    /\ al_pc' = "done"
    /\ UNCHANGED <<w_segs, d_segs, chunk_offset_sec>>
    /\ UNCHANGED <<st_vars, fl_vars, sp_vars, ov_vars, rp_vars, sf_vars, ext_vars>>

InitAlign ==
    /\ w_segs \in WhisperOutputs
    /\ \E n \in 0..MaxTurns : d_segs \in {ts \in [1..n -> Turns] : TimeOrdered(ts)}
    /\ chunk_offset_sec \in ChunkOffsets
    /\ al_pc = "ready"
    /\ aligned_data = <<>>
    /\ StitcherIdle
    /\ FlaggerIdle
    /\ SegmenterIdle
    /\ OverallIdle
    /\ RunnerIdle
    /\ StatusIdle
    /\ ExtIdle

NextAlign == RunAlignment

SpecAlign == InitAlign /\ [][NextAlign]_vars

(***************************************************************************)
(* Segmenter: SmartAudioSplitter.split_audio (backend/core/split.py)       *)
(*                                                                         *)
(* An audio is its duration, the time-ordered list of its silent stretches *)
(* (absolute [start, end) in ms, below the silence threshold) and a        *)
(* loudness profile for everything else.  Durations, targets and silence   *)
(* bounds are drawn as multiples of 100 ms, so that every i * D / N and    *)
(* every silence midpoint is a whole number of milliseconds.               *)
(***************************************************************************)
search_window_ms == 30000
step_ms == 100
min_silence_len == 1000

LoudnessProfiles == {"flat", "rising", "falling"}

\* rms of the non-silent audio at absolute position p
LoudnessAt(profile, p) ==
    CASE profile = "flat"    -> 50
      [] profile = "rising"  -> 10 + (p \div 10000)
      [] profile = "falling" -> 90 - (p \div 10000)

\* chunk.rms of the slice [p, q) of the audio: 0 inside a silent stretch
rms(audio, p, q) ==
    IF \E k \in 1..Len(audio.silent) :
          audio.silent[k][1] <= p /\ q <= audio.silent[k][2]
    THEN 0
    ELSE LoudnessAt(audio.profile, p)

\* pydub.silence.detect_silence on audio[lo:hi]: the silent stretches of the
\* slice that last at least min_silence_len, relative to lo, in time order
detect_silence(audio, lo, hi) ==
    SelectSeq([k \in 1..Len(audio.silent) |->
                  <<Max(audio.silent[k][1], lo) - lo,
                    Min(audio.silent[k][2], hi) - lo>>],
              LAMBDA iv : iv[2] - iv[1] >= min_silence_len)

\* _find_quietest_point_in_window: the loop over range(0, len, step_ms) keeps
\* the offset of the first step whose rms is the lowest (it replaces the best
\* only on a strictly lower rms); 0 for an empty window
find_quietest_point_in_window(audio, lo, hi) ==
    LET offsets == {k * step_ms : k \in 0..(((hi - lo) - 1) \div step_ms)}
        rms_at(i) == rms(audio, lo + i, Min(lo + i + step_ms, hi))
    IN  IF hi <= lo THEN 0
        ELSE CHOOSE i \in offsets :
                \A j \in offsets :
                    rms_at(i) < rms_at(j) \/ (rms_at(i) = rms_at(j) /\ i <= j)

Abs(x) == IF x < 0 THEN 0 - x ELSE x

target_time(audio, num_chunks, i) == (i * audio.total_duration) \div num_chunks
search_start(audio, num_chunks, i) ==
    Max(0, target_time(audio, num_chunks, i) - search_window_ms)
search_end(audio, num_chunks, i) ==
    Min(audio.total_duration, target_time(audio, num_chunks, i) + search_window_ms)

\* midpoint of the silence closest to the target; the first one wins a tie
NearestSilenceMid(silences, start, target) ==
    LET mid(k) == start + ((silences[k][1] + silences[k][2]) \div 2)
        diff(k) == Abs(mid(k) - target)
        best == CHOOSE k \in 1..Len(silences) :
                    \A j \in 1..Len(silences) :
                        diff(k) < diff(j) \/ (diff(k) = diff(j) /\ k <= j)
    IN  mid(best)

AdaptiveSplitPoint_PastWindow(start, best_offset) ==
    start + best_offset + 2 * search_window_ms
AdaptiveSplitPoint(start, best_offset) == start + best_offset

\* actual_split_point of cut i
actual_split_point(audio, num_chunks, i) ==
    LET lo == search_start(audio, num_chunks, i)
        hi == search_end(audio, num_chunks, i)
        silences == detect_silence(audio, lo, hi)
    IN  IF silences # <<>>
        THEN NearestSilenceMid(silences, lo, target_time(audio, num_chunks, i))
        ELSE AdaptiveSplitPoint(lo, find_quietest_point_in_window(audio, lo, hi))

split_points(audio, num_chunks) ==
    <<0>> \o [i \in 1..(num_chunks - 1) |-> actual_split_point(audio, num_chunks, i)]
          \o <<audio.total_duration>>

split_audio(audio, num_chunks) ==
    IF ~audio.decodable THEN <<>>
    ELSE LET points == split_points(audio, num_chunks)
         IN  [i \in 1..(Len(points) - 1) |->
                [chunk_id      |-> i,
                 file_path     |-> <<"chunk", i, points[i], points[i + 1]>>,
                 start_time_ms |-> points[i],
                 end_time_ms   |-> points[i + 1],
                 duration_ms   |-> points[i + 1] - points[i]]]

Durations == {60000, 90000, 240000}
ChunkCounts == {1, 2, 3, 4}
SilenceLayouts ==
    { <<>>,
      << <<14000, 16000>> >>,
      << <<29900, 30900>> >>,
      << <<26000, 34000>> >>,
      << <<34000, 36000>>, <<54000, 56000>> >>,
      << <<59100, 60100>>, <<80000, 82000>> >>,
      << <<100000, 102000>>, <<170000, 171000>> >> }

Audios ==
    { a \in [decodable : {TRUE}, total_duration : Durations,
             silent : SilenceLayouts, profile : LoudnessProfiles] :
        \A k \in 1..Len(a.silent) : a.silent[k][2] <= a.total_duration }
    \cup {UndecodableAudio}

SplitAudio ==
    /\ sp_pc = "ready"
    /\ output_files' = split_audio(sp_audio, sp_num_chunks)
    /\ sp_pc' = "done"
    /\ UNCHANGED <<sp_audio, sp_num_chunks>>
    /\ UNCHANGED <<st_vars, fl_vars, al_vars, ov_vars, rp_vars, sf_vars, ext_vars>>

InitSplit ==
    /\ sp_audio \in Audios
    /\ sp_num_chunks \in ChunkCounts
    /\ sp_pc = "ready"
    /\ output_files = <<>>
    /\ StitcherIdle
    /\ FlaggerIdle
    /\ AlignerIdle
    /\ OverallIdle
    /\ RunnerIdle
    /\ StatusIdle
    /\ ExtIdle

NextSplit == SplitAudio

SpecSplit == InitSplit /\ [][NextSplit]_vars

(***************************************************************************)
(* Orchestrator: OverallPipeline.run_complete_pipeline                     *)
(* (backend/core/overall_pipeline.py) on one case directory, invoked       *)
(* repeatedly.  Files survive an invocation, memory does not.              *)
(*                                                                         *)
(*   - a chunk file is named <<"chunk", i, start, end>>; the JSON files of *)
(*     a chunk are kept per chunk position i;                              *)
(*   - a JSON file is absent, torn (opened for writing, json.dump not      *)
(*     finished: not parseable) or holds its content;                      *)
(*   - the recognition of a chunk is "full", or "truncated" when           *)
(*     run_whisper saved the partial results of a failed transcription;    *)
(*   - a reply of the completion service is one of ServiceOutcomes, and a  *)
(*     segment records which outcome stitched it and which flagged it;     *)
(*   - the process may be killed at any point of an invocation (Crash),    *)
(*     and Ctrl-C inside step 2 is the KeyboardInterrupt the code catches. *)
(***************************************************************************)
ServiceOutcomes == {"reply_a", "reply_b"}
Invocations == {1, 2}
OverallChunkCounts == {1, 2}

OverallAudio ==
    [decodable |-> TRUE, total_duration |-> 90000,
     silent |-> << <<34000, 36000>>, <<54000, 56000>> >>, profile |-> "flat"]

\* datetime.now() as read by save_results: later in a later invocation
Now == ov_run

\* step1_split_audio, lines 98-126: metadata rebuilt from the sorted names
MetadataFromNames(names) ==
    [k \in 1..Len(names) |->
        [chunk_id      |-> k,
         file_path     |-> names[k],
         start_time_ms |-> names[k][3],
         end_time_ms   |-> names[k][4],
         duration_ms   |-> names[k][4] - names[k][3]]]

NamesOf(metadata) == [k \in 1..Len(metadata) |-> metadata[k].file_path]

\* OverallPipeline builds its splitter as SmartAudioSplitter(case_name=...), a
\* keyword the constructor of split.py does not take; the splitter it is
\* written for exports the chunk files into the case directory, which is
\* where step 1 and step 2 look for them
ChunkFilesExported(metadata) == NamesOf(metadata)

\* the chunk position a chunk file name carries
SlotOf(meta) == meta.file_path[2]

\* lines 130-139: with force, the old chunk files and their JSON files go
WithoutJson(json, names) ==
    [c \in ChunkSlots |->
        IF \E k \in 1..Len(names) : names[k][2] = c THEN AbsentJson ELSE json[c]]

\* the condition of line 95
SkipSplit == chunk_files # <<>> /\ ~force_reprocess

OvStep1Skip ==
    /\ ov_pc = "step1"
    /\ SkipSplit
    /\ chunk_metadata' = MetadataFromNames(chunk_files)
    /\ ov_k' = 1
    /\ ov_pc' = "chunk"
    /\ UNCHANGED <<ov_run, ov_audio, ov_num_chunks, force_reprocess, ov_disk,
                   aligned_files, all_segments, stitched_segments, final_segments, ov_calls, ov_history>>
    /\ UNCHANGED <<st_vars, fl_vars, al_vars, sp_vars, rp_vars, sf_vars, ext_vars>>

OvStep1Split ==
    /\ ov_pc = "step1"
    /\ ~SkipSplit
    /\ LET names == IF force_reprocess THEN chunk_files ELSE <<>>
           made  == split_audio(ov_audio, ov_num_chunks)
       IN  /\ whisper_json' = WithoutJson(whisper_json, names)
           /\ diar_json' = WithoutJson(diar_json, names)
           /\ aligned_json' = WithoutJson(aligned_json, names)
           /\ chunk_files' = ChunkFilesExported(made)
           /\ chunk_metadata' = made
    /\ ov_k' = 1
    /\ ov_pc' = "chunk"
    /\ UNCHANGED <<ov_run, ov_audio, ov_num_chunks, force_reprocess,
                   final_transcript, aligned_files, all_segments, stitched_segments, final_segments, ov_calls,
                   ov_history>>
    /\ UNCHANGED <<st_vars, fl_vars, al_vars, sp_vars, rp_vars, sf_vars, ext_vars>>

\* the process dies inside split_audio's export loop (split.py 100-120),
\* after some but not all chunk files were exported
OvCrashInSplit ==
    /\ ov_pc = "step1"
    /\ ~SkipSplit
    /\ LET names == IF force_reprocess THEN chunk_files ELSE <<>>
           made  == split_audio(ov_audio, ov_num_chunks)
       IN  /\ Len(made) >= 2
           /\ \E j \in 1..(Len(made) - 1) :
                 chunk_files' = SubSeq(ChunkFilesExported(made), 1, j)
           /\ whisper_json' = WithoutJson(whisper_json, names)
           /\ diar_json' = WithoutJson(diar_json, names)
           /\ aligned_json' = WithoutJson(aligned_json, names)
    /\ ov_pc' = "dead"
    /\ ov_history' = [ov_history EXCEPT !.interrupted = TRUE]
    /\ UNCHANGED <<ov_run, ov_audio, ov_num_chunks, force_reprocess,
                   final_transcript, ov_memory, ov_calls>>
    /\ UNCHANGED <<st_vars, fl_vars, al_vars, sp_vars, rp_vars, sf_vars, ext_vars>>

\* the chunk the step-2 loop is at
CurrentSlot == SlotOf(chunk_metadata[ov_k])

\* success_count is incremented with every append to aligned_files
\* (lines 182-183 and 225-226) and nowhere else
success_count == Len(aligned_files)

\* run_complete_pipeline, lines 372-373, once step 2 has returned
AfterStep2(files) == IF files = <<>> THEN "failed" ELSE "step3"

\* the loop of step2_ai_processing is over
OvStep2Returns ==
    /\ ov_pc = "chunk"
    /\ ov_k > Len(chunk_metadata)
    /\ ov_pc' = AfterStep2(aligned_files)
    /\ UNCHANGED <<ov_run, ov_audio, ov_num_chunks, force_reprocess, ov_disk,
                   ov_memory, ov_calls, ov_history>>
    /\ UNCHANGED <<st_vars, fl_vars, al_vars, sp_vars, rp_vars, sf_vars, ext_vars>>

\* lines 180-184: the aligned file of the chunk exists
OvChunkSkip ==
    /\ ov_pc = "chunk"
    /\ ov_k <= Len(chunk_metadata)
    /\ Exists(aligned_json[CurrentSlot]) /\ ~force_reprocess
    /\ aligned_files' = Append(aligned_files, CurrentSlot)
    /\ ov_k' = ov_k + 1
    /\ UNCHANGED <<ov_pc, ov_run, ov_audio, ov_num_chunks, force_reprocess,
                   ov_disk, chunk_metadata, all_segments, stitched_segments, final_segments, ov_calls, ov_history>>
    /\ UNCHANGED <<st_vars, fl_vars, al_vars, sp_vars, rp_vars, sf_vars, ext_vars>>

\* the clean-up made for every chunk, forced or not
CleansOldJson_Always(force) == TRUE

\* line 187: the old JSON files of the chunk are removed only with force
CleansOldJson(force) == force

\* lines 186-195: otherwise the chunk is processed, after a clean-up with force
OvChunkBegin ==
    /\ ov_pc = "chunk"
    /\ ov_k <= Len(chunk_metadata)
    /\ ~(Exists(aligned_json[CurrentSlot]) /\ ~force_reprocess)
    /\ IF CleansOldJson(force_reprocess)
       THEN /\ whisper_json' = [whisper_json EXCEPT ![CurrentSlot] = AbsentJson]
            /\ diar_json' = [diar_json EXCEPT ![CurrentSlot] = AbsentJson]
            /\ aligned_json' = [aligned_json EXCEPT ![CurrentSlot] = AbsentJson]
       ELSE UNCHANGED <<whisper_json, diar_json, aligned_json>>
    /\ ov_pc' = "whisper"
    /\ UNCHANGED <<ov_run, ov_audio, ov_num_chunks, force_reprocess, chunk_files,
                   final_transcript, ov_memory, ov_calls, ov_history>>
    /\ UNCHANGED <<st_vars, fl_vars, al_vars, sp_vars, rp_vars, sf_vars, ext_vars>>

\* lines 200-206 and run_whisper 73-75: an existing whisper file is kept
OvWhisperSkip ==
    /\ ov_pc = "whisper"
    /\ Exists(whisper_json[CurrentSlot])
    /\ ov_pc' = "diar"
    /\ UNCHANGED <<ov_run, ov_audio, ov_num_chunks, force_reprocess, ov_disk,
                   ov_memory, ov_calls, ov_history>>
    /\ UNCHANGED <<st_vars, fl_vars, al_vars, sp_vars, rp_vars, sf_vars, ext_vars>>

\* run_whisper 87-123: the model transcribes and the file is opened
OvWhisperCall ==
    /\ ov_pc = "whisper"
    /\ ~Exists(whisper_json[CurrentSlot])
    /\ ov_calls' = [ov_calls EXCEPT !.recognition = @ + 1]
    /\ whisper_json' = [whisper_json EXCEPT ![CurrentSlot] = TornJson]
    /\ ov_pc' = "whisper_write"
    /\ UNCHANGED <<ov_run, ov_audio, ov_num_chunks, force_reprocess, chunk_files,
                   diar_json, aligned_json, final_transcript, ov_memory,
                   ov_history>>
    /\ UNCHANGED <<st_vars, fl_vars, al_vars, sp_vars, rp_vars, sf_vars, ext_vars>>

OvWhisperWritten ==
    /\ ov_pc = "whisper_write"
    /\ whisper_json' = [whisper_json EXCEPT ![CurrentSlot] = Json(<<"full">>)]
    /\ ov_pc' = "diar"
    /\ UNCHANGED <<ov_run, ov_audio, ov_num_chunks, force_reprocess, chunk_files,
                   diar_json, aligned_json, final_transcript, ov_memory,
                   ov_calls, ov_history>>
    /\ UNCHANGED <<st_vars, fl_vars, al_vars, sp_vars, rp_vars, sf_vars, ext_vars>>

\* run_whisper 127-138: the transcription raises; the results so far, if any,
\* are saved as the whisper file; step 2 catches and goes to the next chunk
OvWhisperFails ==
    /\ ov_pc = "whisper"
    /\ ~Exists(whisper_json[CurrentSlot])
    /\ ov_calls' = [ov_calls EXCEPT !.recognition = @ + 1]
    /\ \E partial \in BOOLEAN :
          whisper_json' = [whisper_json EXCEPT
                              ![CurrentSlot] = IF partial THEN Json(<<"truncated">>)
                                               ELSE AbsentJson]
    /\ ov_history' = [ov_history EXCEPT !.adapter_failed = TRUE]
    /\ ov_k' = ov_k + 1
    /\ ov_pc' = "chunk"
    /\ UNCHANGED <<ov_run, ov_audio, ov_num_chunks, force_reprocess, chunk_files,
                   diar_json, aligned_json, final_transcript, chunk_metadata,
                   aligned_files, all_segments, stitched_segments, final_segments>>
    /\ UNCHANGED <<st_vars, fl_vars, al_vars, sp_vars, rp_vars, sf_vars, ext_vars>>

\* lines 211-217 and run_diarization 150-152
OvDiarSkip ==
    /\ ov_pc = "diar"
    /\ Exists(diar_json[CurrentSlot])
    /\ ov_pc' = "align"
    /\ UNCHANGED <<ov_run, ov_audio, ov_num_chunks, force_reprocess, ov_disk,
                   ov_memory, ov_calls, ov_history>>
    /\ UNCHANGED <<st_vars, fl_vars, al_vars, sp_vars, rp_vars, sf_vars, ext_vars>>

\* run_diarization 157-187
OvDiarCall ==
    /\ ov_pc = "diar"
    /\ ~Exists(diar_json[CurrentSlot])
    /\ ov_calls' = [ov_calls EXCEPT !.diarization = @ + 1]
    /\ diar_json' = [diar_json EXCEPT ![CurrentSlot] = TornJson]
    /\ ov_pc' = "diar_write"
    /\ UNCHANGED <<ov_run, ov_audio, ov_num_chunks, force_reprocess, chunk_files,
                   whisper_json, aligned_json, final_transcript, ov_memory,
                   ov_history>>
    /\ UNCHANGED <<st_vars, fl_vars, al_vars, sp_vars, rp_vars, sf_vars, ext_vars>>

OvDiarWritten ==
    /\ ov_pc = "diar_write"
    /\ diar_json' = [diar_json EXCEPT ![CurrentSlot] = Json(<<"turns">>)]
    /\ ov_pc' = "align"
    /\ UNCHANGED <<ov_run, ov_audio, ov_num_chunks, force_reprocess, chunk_files,
                   whisper_json, aligned_json, final_transcript, ov_memory,
                   ov_calls, ov_history>>
    /\ UNCHANGED <<st_vars, fl_vars, al_vars, sp_vars, rp_vars, sf_vars, ext_vars>>

\* run_diarization 168-173: the model fails, the function returns normally
\* and writes nothing
OvDiarFails ==
    /\ ov_pc = "diar"
    /\ ~Exists(diar_json[CurrentSlot])
    /\ ov_calls' = [ov_calls EXCEPT !.diarization = @ + 1]
    /\ ov_history' = [ov_history EXCEPT !.adapter_failed = TRUE]
    /\ ov_pc' = "align"
    /\ UNCHANGED <<ov_run, ov_audio, ov_num_chunks, force_reprocess, ov_disk,
                   ov_memory>>
    /\ UNCHANGED <<st_vars, fl_vars, al_vars, sp_vars, rp_vars, sf_vars, ext_vars>>

\* the aligned segments run_alignment derives from a chunk's two inputs
AlignedOf(c, w_json) ==
    [i \in 1..Len(w_json.content) |-> [chunk |-> c, recog |-> w_json.content[i]]]

\* run_alignment 206-208 returns without output when an input is missing;
\* step 2 still counts the chunk as done (lines 223-226)
OvAlignNoInput ==
    /\ ov_pc = "align"
    /\ ~Exists(whisper_json[CurrentSlot]) \/ ~Exists(diar_json[CurrentSlot])
    /\ aligned_files' = Append(aligned_files, CurrentSlot)
    /\ ov_k' = ov_k + 1
    /\ ov_pc' = "chunk"
    /\ UNCHANGED <<ov_run, ov_audio, ov_num_chunks, force_reprocess, ov_disk,
                   chunk_metadata, all_segments, stitched_segments, final_segments, ov_calls, ov_history>>
    /\ UNCHANGED <<st_vars, fl_vars, al_vars, sp_vars, rp_vars, sf_vars, ext_vars>>

\* run_alignment 210-213: json.load raises on a torn input; step 2 catches
\* (lines 233-237) and goes to the next chunk
OvAlignUnreadable ==
    /\ ov_pc = "align"
    /\ Exists(whisper_json[CurrentSlot]) /\ Exists(diar_json[CurrentSlot])
    /\ ~Readable(whisper_json[CurrentSlot]) \/ ~Readable(diar_json[CurrentSlot])
    /\ ov_k' = ov_k + 1
    /\ ov_pc' = "chunk"
    /\ UNCHANGED <<ov_run, ov_audio, ov_num_chunks, force_reprocess, ov_disk,
                   chunk_metadata, aligned_files, all_segments, stitched_segments, final_segments, ov_calls,
                   ov_history>>
    /\ UNCHANGED <<st_vars, fl_vars, al_vars, sp_vars, rp_vars, sf_vars, ext_vars>>

OvAlignOpen ==
    /\ ov_pc = "align"
    /\ Readable(whisper_json[CurrentSlot]) /\ Readable(diar_json[CurrentSlot])
    /\ aligned_json' = [aligned_json EXCEPT ![CurrentSlot] = TornJson]
    /\ ov_pc' = "align_write"
    /\ UNCHANGED <<ov_run, ov_audio, ov_num_chunks, force_reprocess, chunk_files,
                   whisper_json, diar_json, final_transcript, ov_memory,
                   ov_calls, ov_history>>
    /\ UNCHANGED <<st_vars, fl_vars, al_vars, sp_vars, rp_vars, sf_vars, ext_vars>>

OvAlignWritten ==
    /\ ov_pc = "align_write"
    /\ aligned_json' = [aligned_json EXCEPT
                           ![CurrentSlot] =
                               Json(AlignedOf(CurrentSlot, whisper_json[CurrentSlot]))]
    /\ aligned_files' = Append(aligned_files, CurrentSlot)
    /\ ov_k' = ov_k + 1
    /\ ov_pc' = "chunk"
    /\ UNCHANGED <<ov_run, ov_audio, ov_num_chunks, force_reprocess, chunk_files,
                   whisper_json, diar_json, final_transcript, chunk_metadata,
                   all_segments, stitched_segments, final_segments, ov_calls, ov_history>>
    /\ UNCHANGED <<st_vars, fl_vars, al_vars, sp_vars, rp_vars, sf_vars, ext_vars>>

\* lines 229-232: Ctrl-C while a chunk is processed ends the loop, and the
\* run goes on with the chunks aligned so far
OvKeyboardInterrupt ==
    /\ ov_pc \in {"whisper", "diar", "align"}
    /\ ov_pc' = AfterStep2(aligned_files)
    /\ ov_history' = [ov_history EXCEPT !.interrupted = TRUE]
    /\ UNCHANGED <<ov_run, ov_audio, ov_num_chunks, force_reprocess, ov_disk,
                   ov_memory, ov_calls>>
    /\ UNCHANGED <<st_vars, fl_vars, al_vars, sp_vars, rp_vars, sf_vars, ext_vars>>

\* step3_merge_chunks 252-279: the segments of every listed file that exists
\* and parses, with the missing fields defaulted
LoadedSegments(files) ==
    Flatten([k \in 1..Len(files) |->
                IF Readable(aligned_json[files[k]])
                THEN aligned_json[files[k]].content
                ELSE <<>>])

\* step3_merge_chunks 261-283
MergedSegments(files) ==
    LET loaded == LoadedSegments(files)
    IN  [i \in 1..Len(loaded) |->
            [chunk |-> loaded[i].chunk, recog |-> loaded[i].recog,
             sentence_id |-> i - 1, stitched |-> Absent, flagged |-> Absent]]

\* step 5, then lines 378-379
OvMerge ==
    /\ ov_pc = "step3"
    /\ all_segments' = MergedSegments(aligned_files)
    /\ ov_pc' = IF MergedSegments(aligned_files) = <<>> THEN "failed" ELSE "stitch"
    /\ UNCHANGED <<ov_run, ov_audio, ov_num_chunks, force_reprocess, ov_disk,
                   chunk_metadata, ov_k, aligned_files, stitched_segments,
                   final_segments, ov_calls, ov_history>>
    /\ UNCHANGED <<st_vars, fl_vars, al_vars, sp_vars, rp_vars, sf_vars, ext_vars>>

\* what step4_stitch_and_flag hands to the Flagger (line 301)
FlagInput_Unstitched(segments, stitched) == segments
FlagInput(segments, stitched) == stitched

\* step4_stitch_and_flag 296: run_stitching_logic calls the service
OvStitch ==
    /\ ov_pc = "stitch"
    /\ \E outcome \in ServiceOutcomes :
          stitched_segments' = [i \in 1..Len(all_segments) |->
                                   [all_segments[i] EXCEPT !.stitched = outcome]]
    /\ ov_calls' = [ov_calls EXCEPT !.completion = @ + 1]
    /\ ov_pc' = "flag"
    /\ UNCHANGED <<ov_run, ov_audio, ov_num_chunks, force_reprocess, ov_disk,
                   chunk_metadata, ov_k, aligned_files, all_segments,
                   final_segments, ov_history>>
    /\ UNCHANGED <<st_vars, fl_vars, al_vars, sp_vars, rp_vars, sf_vars, ext_vars>>

\* step4_stitch_and_flag 301-307: run_anomaly_detector calls the service
OvFlag ==
    /\ ov_pc = "flag"
    /\ \E outcome \in ServiceOutcomes :
          LET input == FlagInput(all_segments, stitched_segments)
          IN  final_segments' = [i \in 1..Len(input) |->
                                    [input[i] EXCEPT !.flagged = outcome]]
    /\ ov_calls' = [ov_calls EXCEPT !.completion = @ + 1]
    /\ ov_pc' = "save"
    /\ UNCHANGED <<ov_run, ov_audio, ov_num_chunks, force_reprocess, ov_disk,
                   chunk_metadata, ov_k, aligned_files, all_segments,
                   stitched_segments, ov_history>>
    /\ UNCHANGED <<st_vars, fl_vars, al_vars, sp_vars, rp_vars, sf_vars, ext_vars>>

\* save_results 320-328
FinalData(segments) ==
    [state          |-> "ok",
     processed_at   |-> Now,
     total_segments |-> Len(segments),
     segments       |-> segments]

\* save_results 334: the file is opened for writing
OvSaveOpen ==
    /\ ov_pc = "save"
    /\ final_transcript' = TornTranscript
    /\ ov_pc' = "save_write"
    /\ UNCHANGED <<ov_run, ov_audio, ov_num_chunks, force_reprocess, chunk_files,
                   whisper_json, diar_json, aligned_json, ov_memory, ov_calls,
                   ov_history>>
    /\ UNCHANGED <<st_vars, fl_vars, al_vars, sp_vars, rp_vars, sf_vars, ext_vars>>

\* save_results 335
OvSaveWritten ==
    /\ ov_pc = "save_write"
    /\ final_transcript' = FinalData(final_segments)
    /\ ov_pc' = "done"
    /\ UNCHANGED <<ov_run, ov_audio, ov_num_chunks, force_reprocess, chunk_files,
                   whisper_json, diar_json, aligned_json, ov_memory, ov_calls,
                   ov_history>>
    /\ UNCHANGED <<st_vars, fl_vars, al_vars, sp_vars, rp_vars, sf_vars, ext_vars>>

Running ==
    {"step1", "chunk", "whisper", "whisper_write", "diar", "diar_write", "align",
     "align_write", "step3", "stitch", "flag", "save", "save_write"}

\* the process is killed; the files stay as they are
OvCrash ==
    /\ ov_pc \in Running
    /\ ov_pc' = "dead"
    /\ ov_history' = [ov_history EXCEPT !.interrupted = TRUE]
    /\ UNCHANGED <<ov_run, ov_audio, ov_num_chunks, force_reprocess, ov_disk,
                   ov_memory, ov_calls>>
    /\ UNCHANGED <<st_vars, fl_vars, al_vars, sp_vars, rp_vars, sf_vars, ext_vars>>

\* the pipeline is invoked again on the same case (main, lines 422-425)
OvInvokeAgain ==
    /\ ov_pc \in {"done", "failed", "dead"}
    /\ ov_run + 1 \in Invocations
    /\ ov_run' = ov_run + 1
    /\ force_reprocess' \in BOOLEAN
    /\ ov_history' = [ov_history EXCEPT
                         !.first_completed = (ov_pc = "done"),
                         !.first_interrupted = ov_history.interrupted,
                         !.first_transcript = final_transcript,
                         !.interrupted = FALSE]
    /\ chunk_metadata' = <<>> /\ ov_k' = 0 /\ aligned_files' = <<>>
    /\ all_segments' = <<>> /\ stitched_segments' = <<>>
    /\ final_segments' = <<>>
    /\ ov_calls' = NoCalls
    /\ ov_pc' = "step1"
    /\ UNCHANGED <<ov_audio, ov_num_chunks, ov_disk>>
    /\ UNCHANGED <<st_vars, fl_vars, al_vars, sp_vars, rp_vars, sf_vars, ext_vars>>

InitOverall ==
    /\ ov_audio \in {OverallAudio, UndecodableAudio}
    /\ ov_num_chunks \in OverallChunkCounts
    /\ force_reprocess \in BOOLEAN
    /\ ov_pc = "step1" /\ ov_run = 1
    /\ chunk_files = <<>>
    /\ whisper_json = [c \in ChunkSlots |-> AbsentJson]
    /\ diar_json = [c \in ChunkSlots |-> AbsentJson]
    /\ aligned_json = [c \in ChunkSlots |-> AbsentJson]
    /\ final_transcript = AbsentTranscript
    /\ chunk_metadata = <<>> /\ ov_k = 0 /\ aligned_files = <<>>
    /\ all_segments = <<>> /\ stitched_segments = <<>> /\ final_segments = <<>>
    /\ ov_calls = NoCalls /\ ov_history = NoHistory
    /\ StitcherIdle
    /\ FlaggerIdle
    /\ AlignerIdle
    /\ SegmenterIdle
    /\ RunnerIdle
    /\ StatusIdle
    /\ ExtIdle

NextOverall ==
    \/ OvStep1Skip
    \/ OvStep1Split
    \/ OvCrashInSplit
    \/ OvStep2Returns
    \/ OvChunkSkip
    \/ OvChunkBegin
    \/ OvWhisperSkip
    \/ OvWhisperCall
    \/ OvWhisperWritten
    \/ OvWhisperFails
    \/ OvDiarSkip
    \/ OvDiarCall
    \/ OvDiarWritten
    \/ OvDiarFails
    \/ OvAlignNoInput
    \/ OvAlignUnreadable
    \/ OvAlignOpen
    \/ OvAlignWritten
    \/ OvKeyboardInterrupt
    \/ OvMerge
    \/ OvStitch
    \/ OvFlag
    \/ OvSaveOpen
    \/ OvSaveWritten
    \/ OvCrash
    \/ OvInvokeAgain

SpecOverall == InitOverall /\ [][NextOverall]_vars

(***************************************************************************)
(* Status record: FileManager.save_status / get_status                     *)
(* (backend/core/file_manager.py).  save_status opens status.json with     *)
(* mode "w", which empties it, and json.dump then fills it; get_status     *)
(* tests exists() and then opens and parses the file.  The two run in      *)
(* different threads of the server (background task, request handler).     *)
(***************************************************************************)
\* get_status, line 272
InitStatus == [state |-> "ok", step |-> "Init", progress |-> 0, message |-> "Waiting..."]
\* get_status, line 277
CannotReadStatus ==
    [state |-> "ok", step |-> "Error", progress |-> 0, message |-> "Cannot read status"]

\* the records a pipeline may hand to save_status
StatusRecords ==
    { [state |-> "ok", step |-> "Split", progress |-> 10, message |-> "splitting"],
      [state |-> "ok", step |-> "Process", progress |-> 40, message |-> "recognizing"],
      [state |-> "ok", step |-> "Finalize", progress |-> 100, message |-> "transcript.json"],
      [state |-> "ok", step |-> "Error", progress |-> -1, message |-> "cause"] }

\* save_status 255-263: the record is built and the file opened with "w"
SaveStatusOpen ==
    /\ sw_pc = "idle"
    /\ \E record \in StatusRecords :
          /\ sw_data' = record
          /\ sw_saved' = sw_saved \cup {record}
    /\ status_file' = TornStatus
    /\ sw_pc' = "writing"
    /\ UNCHANGED <<polled, sr_pc>>
    /\ UNCHANGED <<st_vars, fl_vars, al_vars, sp_vars, ov_vars, rp_vars, ext_vars>>

\* save_status 264: json.dump is through and the file is closed
SaveStatusDumped ==
    /\ sw_pc = "writing"
    /\ status_file' = sw_data
    /\ sw_pc' = "idle"
    /\ UNCHANGED <<polled, sr_pc, sw_data, sw_saved>>
    /\ UNCHANGED <<st_vars, fl_vars, al_vars, sp_vars, ov_vars, rp_vars, ext_vars>>

\* get_status 270-272: no status file
GetStatusMissing ==
    /\ sr_pc = "idle"
    /\ ~Exists(status_file)
    /\ polled' = InitStatus
    /\ UNCHANGED <<status_file, sr_pc, sw_pc, sw_data, sw_saved>>
    /\ UNCHANGED <<st_vars, fl_vars, al_vars, sp_vars, ov_vars, rp_vars, ext_vars>>

\* get_status 271: the file exists
GetStatusFound ==
    /\ sr_pc = "idle"
    /\ Exists(status_file)
    /\ sr_pc' = "open"
    /\ UNCHANGED <<status_file, polled, sw_pc, sw_data, sw_saved>>
    /\ UNCHANGED <<st_vars, fl_vars, al_vars, sp_vars, ov_vars, rp_vars, ext_vars>>

\* get_status 273-277: the file is read and parsed; any error gives the
\* "Cannot read status" record
GetStatusLoad ==
    /\ sr_pc = "open"
    /\ polled' = IF Readable(status_file) THEN status_file ELSE CannotReadStatus
    /\ sr_pc' = "idle"
    /\ UNCHANGED <<status_file, sw_pc, sw_data, sw_saved>>
    /\ UNCHANGED <<st_vars, fl_vars, al_vars, sp_vars, ov_vars, rp_vars, ext_vars>>

InitStatusSpec ==
    /\ StatusIdle
    /\ StitcherIdle
    /\ FlaggerIdle
    /\ AlignerIdle
    /\ SegmenterIdle
    /\ OverallIdle
    /\ RunnerIdle
    /\ ExtIdle

NextStatus ==
    \/ SaveStatusOpen
    \/ SaveStatusDumped
    \/ GetStatusMissing
    \/ GetStatusFound
    \/ GetStatusLoad

SpecStatus == InitStatusSpec /\ [][NextStatus]_vars

(***************************************************************************)
(* Orchestrator: NeuroAIPipeline.run (backend/core/run_pipeline.py) on a   *)
(* fresh case, started as a background task by the upload endpoint         *)
(* (backend/main.py) and polled through get_status.                        *)
(*                                                                         *)
(* run_pipeline.py calls PipelinePhase2.run_whisper_batch and              *)
(* run_diarization_batch, which pipeline.py does not define; they are      *)
(* taken to call run_whisper, then run_diarization, on every task in       *)
(* order.  main.py hands run_pipeline the case name as well; the call is   *)
(* taken to reach NeuroAIPipeline.run(video_path, case_name).              *)
(***************************************************************************)
RunAudios == {UndecodableAudio, OverallAudio}
default_num_chunks == 4
RunChunkCounts == {1, 2, default_num_chunks}

SplittingFailed == "Splitting failed, no chunks generated."
TranscriptPath == "output/transcript.json"

\* upload_video_endpoint 456-471: the upload is stored and the run is queued
UploadVideo ==
    /\ rp_pc = "idle"
    /\ rp_pc' = "queued"
    /\ UNCHANGED <<rp_audio, rp_num_chunks, rp_chunk_metadata, rp_aligned,
                   rp_final_data, rp_calls, rp_transcript, rp_result, rp_error>>
    /\ UNCHANGED <<st_vars, fl_vars, al_vars, sp_vars, ov_vars, sf_vars, ext_vars>>

\* run 28-37: the background task creates the case and enters Phase 1
RunStart ==
    /\ rp_pc = "queued"
    /\ rp_pc' = "split"
    /\ UNCHANGED <<rp_audio, rp_num_chunks, rp_chunk_metadata, rp_aligned,
                   rp_final_data, rp_calls, rp_transcript, rp_result, rp_error>>
    /\ UNCHANGED <<st_vars, fl_vars, al_vars, sp_vars, ov_vars, sf_vars, ext_vars>>

\* run 38: "if not chunk_metadata"
NoChunks_Never(chunks) == FALSE
NoChunks(chunks) == chunks = <<>>

\* _step_1_split, then run 38-39 and, on the ValueError, 57-63
RunStep1Split ==
    /\ rp_pc = "split"
    /\ LET chunks == split_audio(rp_audio, rp_num_chunks)
       IN  /\ rp_chunk_metadata' = chunks
           /\ IF NoChunks(chunks)
              THEN /\ rp_error' = SplittingFailed
                   /\ rp_result' = NoneVal
                   /\ rp_pc' = "done"
              ELSE /\ rp_pc' = "process"
                   /\ UNCHANGED <<rp_error, rp_result>>
    /\ UNCHANGED <<rp_audio, rp_num_chunks, rp_aligned, rp_final_data, rp_calls,
                   rp_transcript>>
    /\ UNCHANGED <<st_vars, fl_vars, al_vars, sp_vars, ov_vars, sf_vars, ext_vars>>

\* the two batch calls of _step_2_process (lines 92-93) on a fresh case: one
\* recognition call and one diarization call per chunk
BatchCalls(chunks) ==
    [recognition |-> Len(chunks), diarization |-> Len(chunks), completion |-> 0]

\* what the recognizer and the diarizer wrote for one chunk of the model:
\* two segments of one speaker
RunRecognized ==
    << [start |-> 0, end |-> 1000, text |-> SegText(1)],
       [start |-> 1000, end |-> 2000, text |-> SegText(2)] >>
RunTurns == << [start |-> 0, end |-> 2000, speaker |-> "SPEAKER_00"] >>

\* the aligned file of a chunk (run_alignment called at run_pipeline.py 97)
RunAligned(meta) ==
    [k \in 1..Len(RunRecognized) |->
        AlignedSegment(RunRecognized[k], k - 1, RunTurns, meta.start_time_ms)]

\* _step_2_process 74-105; run_diarization may fail without output
\* (pipeline.py 168-173), and run_alignment then writes no aligned file
RunStep2Process ==
    /\ rp_pc = "process"
    /\ \E diarized \in SUBSET (1..Len(rp_chunk_metadata)) :
          rp_aligned' = [c \in 1..Len(rp_chunk_metadata) |->
                            IF c \in diarized THEN RunAligned(rp_chunk_metadata[c])
                            ELSE <<>>]
    /\ rp_calls' = BatchCalls(rp_chunk_metadata)
    /\ rp_pc' = "stitch_flag"
    /\ UNCHANGED <<rp_audio, rp_num_chunks, rp_chunk_metadata, rp_final_data,
                   rp_transcript, rp_result, rp_error>>
    /\ UNCHANGED <<st_vars, fl_vars, al_vars, sp_vars, ov_vars, sf_vars, ext_vars>>

\* run_whisper raises on chunk j (pipeline.py 127-138); run catches (57-63)
RunStep2Fails ==
    /\ rp_pc = "process"
    /\ \E j \in 1..Len(rp_chunk_metadata) :
          rp_calls' = [rp_calls EXCEPT !.recognition = j]
    /\ rp_error' = "Whisper"
    /\ rp_result' = NoneVal
    /\ rp_pc' = "done"
    /\ UNCHANGED <<rp_audio, rp_num_chunks, rp_chunk_metadata, rp_aligned,
                   rp_final_data, rp_transcript>>
    /\ UNCHANGED <<st_vars, fl_vars, al_vars, sp_vars, ov_vars, sf_vars, ext_vars>>

\* the chunks _step_3_4_process_per_chunk stitches and flags (lines 141-145)
WithSegments(aligned) == {c \in 1..Len(aligned) : aligned[c] # <<>>}

\* how run_stitching_logic ends on one chunk: the service replied with one
\* sentence merging the chunk's segments, every attempt failed, or the
\* function itself raised
RunStitchOutcomes ==
    [kind : {"reply"}, text : ProposedTexts]
        \cup {[kind |-> "service_failed", text |-> <<>>],
              [kind |-> "raised", text |-> <<>>]}

\* how run_anomaly_detector ends on one chunk
RunFlagOutcomes == {"healthy", "suspicious", "service_failed", "raised"}

\* a record with the fields of extra set, as item[key] = value does on a dict
SetFields(item, extra) ==
    [f \in DOMAIN item \cup DOMAIN extra |->
        IF f \in DOMAIN extra THEN extra[f] ELSE item[f]]

\* the Stitcher losing the segments of a window whose call failed
StitchChunk_NoFallback(raw_segments, outcome) ==
    LET ids == [k \in 1..Len(raw_segments) |-> raw_segments[k].id]
        batch_map == batch_map_of(raw_segments)
    IN  IF outcome.kind = "reply"
        THEN << StitchedItem([text |-> outcome.text, source_ids |-> ids],
                             valid_ids_of(ids, batch_map), batch_map, 0) >>
        ELSE <<>>

\* run_stitching_logic (stitch.py 69-140) on the segments of one chunk, which
\* fit one window: the reply's sentence (90-118), or one item per segment
\* when process_batch_safe returned None (119-138)
StitchChunk(raw_segments, outcome) ==
    LET ids == [k \in 1..Len(raw_segments) |-> raw_segments[k].id]
        batch_map == batch_map_of(raw_segments)
    IN  IF outcome.kind = "reply"
        THEN << StitchedItem([text |-> outcome.text, source_ids |-> ids],
                             valid_ids_of(ids, batch_map), batch_map, 0) >>
        ELSE [k \in 1..Len(raw_segments) |-> RawFallbackItem(raw_segments[k], k - 1)]

\* run_pipeline.py 147-154: stitched_data, or raw_segments after an exception
StitchedData(raw_segments, outcome) ==
    IF outcome.kind = "raised" THEN raw_segments
    ELSE StitchChunk(raw_segments, outcome)

\* the report of a service that finds the first sentence of a batch suspicious
SuspiciousReport ==
    << [sentence_id |-> 0, is_suspicious |-> TRUE, issue_category |-> "Likely_ASR_Error",
        reason |-> "r", suggested_correction |-> <<"a">>] >>

\* run_anomaly_detector (flag.py 95-140) on the sentences of one chunk, which
\* fit one batch
FlagChunk(stitched_data, outcome) ==
    [k \in 1..Len(stitched_data) |->
        LET item == SetFields(
                        IF "sentence_id" \in DOMAIN stitched_data[k]
                        THEN stitched_data[k]
                        ELSE SetFields(stitched_data[k], [sentence_id |-> k - 1]),
                        [needs_review |-> FALSE, review_reason |-> <<NoneVal>>,
                         suggested_correction |-> <<NoneVal>>])
        IN  CASE outcome = "healthy" -> item
              [] outcome = "suspicious" ->
                     ApplyAssessment(item, assessment_map_of(SuspiciousReport))
              [] OTHER -> MarkAnalysisFailed(item)]

\* run_pipeline.py 157-170: what final_data is extended with for one chunk
FlaggedData(stitched_data, outcome) ==
    IF outcome = "raised" THEN stitched_data
    ELSE FlagChunk(stitched_data, outcome)

\* calls of the completion service made for one chunk (stitch.py 45,
\* flag.py 71): one per attempt
CompletionCalls(stitch_outcome, flag_outcome) ==
    (CASE stitch_outcome.kind = "reply" -> 1
       [] stitch_outcome.kind = "service_failed" -> max_retries
       [] OTHER -> 0)
    + (CASE flag_outcome \in {"healthy", "suspicious"} -> 1
         [] flag_outcome = "service_failed" -> flag_max_retries
         [] OTHER -> 0)

\* _step_3_4_process_per_chunk 108-173 on a fresh case: each chunk that has
\* aligned segments is stitched, then flagged, and final_data is the
\* concatenation in chunk order
RunStep34 ==
    /\ rp_pc = "stitch_flag"
    /\ \E stitch_outcome \in RunStitchOutcomes, flag_outcome \in RunFlagOutcomes :
          /\ rp_final_data' =
                Flatten([c \in 1..Len(rp_aligned) |->
                            IF c \in WithSegments(rp_aligned)
                            THEN FlaggedData(StitchedData(rp_aligned[c], stitch_outcome),
                                             flag_outcome)
                            ELSE <<>>])
          /\ rp_calls' = SetFields(rp_calls,
                             [completion |-> Cardinality(WithSegments(rp_aligned))
                                             * CompletionCalls(stitch_outcome, flag_outcome),
                              stitch |-> stitch_outcome.kind,
                              flag |-> flag_outcome])
    /\ rp_pc' = "save"
    /\ UNCHANGED <<rp_audio, rp_num_chunks, rp_chunk_metadata, rp_aligned,
                   rp_transcript, rp_result, rp_error>>
    /\ UNCHANGED <<st_vars, fl_vars, al_vars, sp_vars, ov_vars, sf_vars, ext_vars>>

\* run 51-55
RunSave ==
    /\ rp_pc = "save"
    /\ rp_transcript' = Json(rp_final_data)
    /\ rp_result' = TranscriptPath
    /\ rp_pc' = "done"
    /\ UNCHANGED <<rp_audio, rp_num_chunks, rp_chunk_metadata, rp_aligned,
                   rp_final_data, rp_calls, rp_error>>
    /\ UNCHANGED <<st_vars, fl_vars, al_vars, sp_vars, ov_vars, sf_vars, ext_vars>>

\* GET /api/status/{case_name} (main.py 477-481) while no status file exists
PollStatus ==
    /\ rp_pc # "idle"
    /\ GetStatusMissing
    /\ UNCHANGED rp_vars

InitRun ==
    /\ rp_audio \in RunAudios
    /\ rp_num_chunks \in RunChunkCounts
    /\ rp_pc = "idle"
    /\ rp_chunk_metadata = <<>> /\ rp_aligned = <<>> /\ rp_final_data = <<>>
    /\ rp_calls = NoCalls /\ rp_transcript = AbsentJson
    /\ rp_result = Absent /\ rp_error = Absent
    /\ StatusIdle
    /\ StitcherIdle
    /\ FlaggerIdle
    /\ AlignerIdle
    /\ SegmenterIdle
    /\ OverallIdle
    /\ ExtIdle

NextRun ==
    \/ UploadVideo
    \/ RunStart
    \/ RunStep1Split
    \/ RunStep2Process
    \/ RunStep2Fails
    \/ RunStep34
    \/ RunSave
    \/ PollStatus

SpecRun == InitRun /\ [][NextRun]_vars


(***************************************************************************)
(* Uploads: upload_video_endpoint (backend/main.py) stores the upload and  *)
(* hands run_pipeline to BackgroundTasks.  run_pipeline is a plain         *)
(* function, so every background run executes in a worker thread of the    *)
(* server, next to the runs other requests have started.                   *)
(***************************************************************************)
CaseNames == {"case_a", "case_b"}
RunPhases == <<"split", "process", "stitch_flag", "save", "done">>
Executing(u) == up_pc[u] \in {"split", "process", "stitch_flag", "save"}

\* upload_video_endpoint 456-471: nothing is looked up about the case before
\* the task is added
UploadArrives(u) ==
    /\ up_pc[u] = "none"
    /\ \E c \in CaseNames : up_case' = [up_case EXCEPT ![u] = c]
    /\ up_pc' = [up_pc EXCEPT ![u] = "queued"]
    /\ UNCHANGED <<st_vars, fl_vars, al_vars, sp_vars, ov_vars, rp_vars, sf_vars,
                   aux_vars,
                   gpu_vars, mg_vars, en_vars>>

\* the response is sent and the task calls run_pipeline (185-187), which
\* builds a NeuroAIPipeline and enters run (28-37)
BackgroundRunStarts(u) ==
    /\ up_pc[u] = "queued"
    /\ up_pc' = [up_pc EXCEPT ![u] = RunPhases[1]]
    /\ UNCHANGED up_case
    /\ UNCHANGED <<st_vars, fl_vars, al_vars, sp_vars, ov_vars, rp_vars, sf_vars,
                   aux_vars,
                   gpu_vars, mg_vars, en_vars>>

\* run 35-55: the run goes from one phase to the next
BackgroundRunAdvances(u) ==
    /\ Executing(u)
    /\ \E k \in 1..(Len(RunPhases) - 1) :
          /\ up_pc[u] = RunPhases[k]
          /\ up_pc' = [up_pc EXCEPT ![u] = RunPhases[k + 1]]
    /\ UNCHANGED up_case
    /\ UNCHANGED <<st_vars, fl_vars, al_vars, sp_vars, ov_vars, rp_vars, sf_vars,
                   aux_vars,
                   gpu_vars, mg_vars, en_vars>>

CoreIdle ==
    /\ StitcherIdle /\ FlaggerIdle /\ AlignerIdle /\ SegmenterIdle
    /\ OverallIdle /\ RunnerIdle /\ StatusIdle

InitUpload ==
    /\ UploadIdle
    /\ AdaptersIdle /\ MergeIdle /\ EngineIdle
    /\ CoreIdle /\ AuxIdle

NextUpload ==
    \/ \E u \in Uploads : UploadArrives(u)
    \/ \E u \in Uploads : BackgroundRunStarts(u)
    \/ \E u \in Uploads : BackgroundRunAdvances(u)

SpecUpload == InitUpload /\ [][NextUpload]_vars


(***************************************************************************)
(* Adapter models in memory: PipelinePhase2.run_whisper / run_diarization  *)
(* (backend/core/pipeline.py) as called by the loop of                      *)
(* OverallPipeline.step2_ai_processing.  A model is resident from the      *)
(* moment it is built until its memory is reclaimed: by "del; gc.collect;  *)
(* empty_cache" in a finally block, or by _clean_gpu.  A model whose only  *)
(* reference was a local of a function that has returned is reclaimed at   *)
(* the return or at the next collection.                                   *)
(***************************************************************************)
AdapterChunkCounts == {1, 2, 3}

\* OverallPipeline._clean_gpu, lines 74-84
CleanGpu_Nothing(models) == models
CleanGpu(models) == {}

\* the finally blocks of run_whisper (139-146) and run_diarization (194-201)
Released(models, model) == models \ {model}

\* step2_ai_processing 166-176: the loop is entered
AdapterLoopStart ==
    /\ gpu_pc = "idle"
    /\ gpu_n' \in AdapterChunkCounts
    /\ gpu_k' = 1
    /\ gpu_pc' = "whisper"
    /\ UNCHANGED <<resident, gpu_outcomes>>
    /\ UNCHANGED <<st_vars, fl_vars, al_vars, sp_vars, ov_vars, rp_vars, sf_vars,
                   aux_vars,
                   up_vars, mg_vars, en_vars>>

\* lines 200, 206: the whisper file exists
GpuWhisperSkip ==
    /\ gpu_pc = "whisper"
    /\ gpu_pc' = "diar"
    /\ UNCHANGED <<gpu_n, gpu_k, resident, gpu_outcomes>>
    /\ UNCHANGED <<st_vars, fl_vars, al_vars, sp_vars, ov_vars, rp_vars, sf_vars,
                   aux_vars,
                   up_vars, mg_vars, en_vars>>

\* run_whisper 88-93: WhisperModel(...) is built
GpuWhisperLoad ==
    /\ gpu_pc = "whisper"
    /\ resident' = resident \cup {"whisper"}
    /\ gpu_pc' = "transcribe"
    /\ UNCHANGED <<gpu_n, gpu_k, gpu_outcomes>>
    /\ UNCHANGED <<st_vars, fl_vars, al_vars, sp_vars, ov_vars, rp_vars, sf_vars,
                   aux_vars,
                   up_vars, mg_vars, en_vars>>

\* run_whisper 88-93 raises: no model, except (127-138) re-raises, the loop's
\* handler (233-237) takes over
GpuWhisperLoadFails ==
    /\ gpu_pc = "whisper"
    /\ gpu_outcomes' = Append(gpu_outcomes, "whisper_failed")
    /\ gpu_pc' = "loop_finally"
    /\ UNCHANGED <<gpu_n, gpu_k, resident>>
    /\ UNCHANGED <<st_vars, fl_vars, al_vars, sp_vars, ov_vars, rp_vars, sf_vars,
                   aux_vars,
                   up_vars, mg_vars, en_vars>>

\* run_whisper 95-125, then finally 139-146
GpuTranscribeDone ==
    /\ gpu_pc = "transcribe"
    /\ resident' = Released(resident, "whisper")
    /\ gpu_pc' = "clean_whisper"
    /\ UNCHANGED <<gpu_n, gpu_k, gpu_outcomes>>
    /\ UNCHANGED <<st_vars, fl_vars, al_vars, sp_vars, ov_vars, rp_vars, sf_vars,
                   aux_vars,
                   up_vars, mg_vars, en_vars>>

\* run_whisper 127-138 (except, raise), then finally 139-146
GpuTranscribeRaises ==
    /\ gpu_pc = "transcribe"
    /\ resident' = Released(resident, "whisper")
    /\ gpu_outcomes' = Append(gpu_outcomes, "whisper_failed")
    /\ gpu_pc' = "loop_finally"
    /\ UNCHANGED <<gpu_n, gpu_k>>
    /\ UNCHANGED <<st_vars, fl_vars, al_vars, sp_vars, ov_vars, rp_vars, sf_vars,
                   aux_vars,
                   up_vars, mg_vars, en_vars>>

\* step2_ai_processing 205
GpuCleanAfterWhisper ==
    /\ gpu_pc = "clean_whisper"
    /\ resident' = CleanGpu(resident)
    /\ gpu_pc' = "diar"
    /\ UNCHANGED <<gpu_n, gpu_k, gpu_outcomes>>
    /\ UNCHANGED <<st_vars, fl_vars, al_vars, sp_vars, ov_vars, rp_vars, sf_vars,
                   aux_vars,
                   up_vars, mg_vars, en_vars>>

\* lines 211, 217: the diar file exists
GpuDiarSkip ==
    /\ gpu_pc = "diar"
    /\ gpu_pc' = "align"
    /\ UNCHANGED <<gpu_n, gpu_k, resident, gpu_outcomes>>
    /\ UNCHANGED <<st_vars, fl_vars, al_vars, sp_vars, ov_vars, rp_vars, sf_vars,
                   aux_vars,
                   up_vars, mg_vars, en_vars>>

\* run_diarization 159-163: Pipeline.from_pretrained(...).to(device)
GpuDiarLoad ==
    /\ gpu_pc = "diar"
    /\ resident' = resident \cup {"pyannote"}
    /\ gpu_pc' = "diarize"
    /\ UNCHANGED <<gpu_n, gpu_k, gpu_outcomes>>
    /\ UNCHANGED <<st_vars, fl_vars, al_vars, sp_vars, ov_vars, rp_vars, sf_vars,
                   aux_vars,
                   up_vars, mg_vars, en_vars>>

\* run_diarization 159-163 raises: except 168-173 returns
GpuDiarLoadFails ==
    /\ gpu_pc = "diar"
    /\ gpu_pc' = "clean_diar"
    /\ UNCHANGED <<gpu_n, gpu_k, resident, gpu_outcomes>>
    /\ UNCHANGED <<st_vars, fl_vars, al_vars, sp_vars, ov_vars, rp_vars, sf_vars,
                   aux_vars,
                   up_vars, mg_vars, en_vars>>

\* run_diarization 166 raises with the model built: except 168-173 returns,
\* and this try has no finally; the local goes with the frame
GpuDiarizeRaises ==
    /\ gpu_pc = "diarize"
    /\ resident' \in {resident, Released(resident, "pyannote")}
    /\ gpu_pc' = "clean_diar"
    /\ UNCHANGED <<gpu_n, gpu_k, gpu_outcomes>>
    /\ UNCHANGED <<st_vars, fl_vars, al_vars, sp_vars, ov_vars, rp_vars, sf_vars,
                   aux_vars,
                   up_vars, mg_vars, en_vars>>

\* run_diarization 175-190, then finally 194-201
GpuDiarizeDone ==
    /\ gpu_pc = "diarize"
    /\ resident' = Released(resident, "pyannote")
    /\ gpu_pc' = "clean_diar"
    /\ UNCHANGED <<gpu_n, gpu_k, gpu_outcomes>>
    /\ UNCHANGED <<st_vars, fl_vars, al_vars, sp_vars, ov_vars, rp_vars, sf_vars,
                   aux_vars,
                   up_vars, mg_vars, en_vars>>

\* run_diarization 191-193 (except, raise), then finally 194-201
GpuDiarWriteRaises ==
    /\ gpu_pc = "diarize"
    /\ resident' = Released(resident, "pyannote")
    /\ gpu_outcomes' = Append(gpu_outcomes, "diar_failed")
    /\ gpu_pc' = "loop_finally"
    /\ UNCHANGED <<gpu_n, gpu_k>>
    /\ UNCHANGED <<st_vars, fl_vars, al_vars, sp_vars, ov_vars, rp_vars, sf_vars,
                   aux_vars,
                   up_vars, mg_vars, en_vars>>

\* step2_ai_processing 216
GpuCleanAfterDiar ==
    /\ gpu_pc = "clean_diar"
    /\ resident' = CleanGpu(resident)
    /\ gpu_pc' = "align"
    /\ UNCHANGED <<gpu_n, gpu_k, gpu_outcomes>>
    /\ UNCHANGED <<st_vars, fl_vars, al_vars, sp_vars, ov_vars, rp_vars, sf_vars,
                   aux_vars,
                   up_vars, mg_vars, en_vars>>

\* step2_ai_processing 222-227
GpuAlign ==
    /\ gpu_pc = "align"
    /\ gpu_outcomes' = Append(gpu_outcomes, "aligned")
    /\ gpu_pc' = "loop_finally"
    /\ UNCHANGED <<gpu_n, gpu_k, resident>>
    /\ UNCHANGED <<st_vars, fl_vars, al_vars, sp_vars, ov_vars, rp_vars, sf_vars,
                   aux_vars,
                   up_vars, mg_vars, en_vars>>

\* step2_ai_processing 238-240, then the next chunk or the end of the loop
GpuLoopFinally ==
    /\ gpu_pc = "loop_finally"
    /\ resident' = CleanGpu(resident)
    /\ gpu_k' = gpu_k + 1
    /\ gpu_pc' = IF gpu_k < gpu_n THEN "whisper" ELSE "done"
    /\ UNCHANGED <<gpu_n, gpu_outcomes>>
    /\ UNCHANGED <<st_vars, fl_vars, al_vars, sp_vars, ov_vars, rp_vars, sf_vars,
                   aux_vars,
                   up_vars, mg_vars, en_vars>>

InitAdapters ==
    /\ AdaptersIdle
    /\ UploadIdle /\ MergeIdle /\ EngineIdle
    /\ CoreIdle /\ AuxIdle

NextAdapters ==
    \/ AdapterLoopStart
    \/ GpuWhisperSkip
    \/ GpuWhisperLoad
    \/ GpuWhisperLoadFails
    \/ GpuTranscribeDone
    \/ GpuTranscribeRaises
    \/ GpuCleanAfterWhisper
    \/ GpuDiarSkip
    \/ GpuDiarLoad
    \/ GpuDiarLoadFails
    \/ GpuDiarizeRaises
    \/ GpuDiarizeDone
    \/ GpuDiarWriteRaises
    \/ GpuCleanAfterDiar
    \/ GpuAlign
    \/ GpuLoopFinally

SpecAdapters == InitAdapters /\ [][NextAdapters]_vars


(***************************************************************************)
(* run_neuroai_pipeline (backend/core/ai_engine.py): Phases 1 and 2.  The  *)
(* function asks file_manager for get_project_dir and get_temp_chunks_dir, *)
(* which file_manager.py has as get_case_dir and get_intermediate_dir; the *)
(* model starts where the splitter has returned its chunk list.            *)
(***************************************************************************)
EngineChunkCounts == {0, 1, 2, 3}

\* the aligned segments of chunk k, with absolute start times
EngineSegments(k) == <<[chunk |-> k, start |-> k * 1000]>>

\* list.sort(key=lambda x: x['start']): a stable sort
RECURSIVE SortByStart(_)
SortByStart(segs) ==
    IF Len(segs) <= 1 THEN segs
    ELSE LET rest == SortByStart(Tail(segs))
             head == Head(segs)
             before == SelectSeq(rest, LAMBDA x : x.start < head.start)
             after  == SelectSeq(rest, LAMBDA x : x.start >= head.start)
         IN  before \o <<head>> \o after

\* lines 37-43: split_audio has returned; an empty list ends the function
EngineStart ==
    /\ en_pc = "idle"
    /\ \E n \in EngineChunkCounts :
          /\ en_n' = n
          /\ en_pc' = IF n = 0 THEN "returned" ELSE "whisper"
    /\ en_k' = 1
    /\ UNCHANGED <<en_whisper, en_diar, en_aligned, en_segments>>
    /\ UNCHANGED <<st_vars, fl_vars, al_vars, sp_vars, ov_vars, rp_vars, sf_vars,
                   aux_vars,
                   up_vars, gpu_vars, mg_vars>>

\* line 72: run_whisper returns
EnWhisper ==
    /\ en_pc = "whisper"
    /\ en_whisper' = en_whisper \cup {en_k}
    /\ en_pc' = "diar"
    /\ UNCHANGED <<en_n, en_k, en_diar, en_aligned, en_segments>>
    /\ UNCHANGED <<st_vars, fl_vars, al_vars, sp_vars, ov_vars, rp_vars, sf_vars,
                   aux_vars,
                   up_vars, gpu_vars, mg_vars>>

\* line 72: run_whisper raises (pipeline.py 127-138, after saving what it
\* has); the loop has no handler, so the exception leaves the function
EnWhisperRaises ==
    /\ en_pc = "whisper"
    /\ \E partial \in BOOLEAN :
          en_whisper' = IF partial THEN en_whisper \cup {en_k} ELSE en_whisper
    /\ en_pc' = "raised"
    /\ UNCHANGED <<en_n, en_k, en_diar, en_aligned, en_segments>>
    /\ UNCHANGED <<st_vars, fl_vars, al_vars, sp_vars, ov_vars, rp_vars, sf_vars,
                   aux_vars,
                   up_vars, gpu_vars, mg_vars>>

\* line 75: run_diarization writes the diar file
EnDiar ==
    /\ en_pc = "diar"
    /\ en_diar' = en_diar \cup {en_k}
    /\ en_pc' = "align"
    /\ UNCHANGED <<en_n, en_k, en_whisper, en_aligned, en_segments>>
    /\ UNCHANGED <<st_vars, fl_vars, al_vars, sp_vars, ov_vars, rp_vars, sf_vars,
                   aux_vars,
                   up_vars, gpu_vars, mg_vars>>

\* line 75: the model fails and run_diarization returns (pipeline.py 168-173)
EnDiarFails ==
    /\ en_pc = "diar"
    /\ en_pc' = "align"
    /\ UNCHANGED <<en_n, en_k, en_whisper, en_diar, en_aligned, en_segments>>
    /\ UNCHANGED <<st_vars, fl_vars, al_vars, sp_vars, ov_vars, rp_vars, sf_vars,
                   aux_vars,
                   up_vars, gpu_vars, mg_vars>>

\* line 75: run_diarization raises while writing (pipeline.py 191-193)
EnDiarRaises ==
    /\ en_pc = "diar"
    /\ en_pc' = "raised"
    /\ UNCHANGED <<en_n, en_k, en_whisper, en_diar, en_aligned, en_segments>>
    /\ UNCHANGED <<st_vars, fl_vars, al_vars, sp_vars, ov_vars, rp_vars, sf_vars,
                   aux_vars,
                   up_vars, gpu_vars, mg_vars>>

\* line 78: run_alignment writes the aligned file if both inputs exist
EnAlign ==
    /\ en_pc = "align"
    /\ en_aligned' = IF en_k \in en_whisper /\ en_k \in en_diar
                     THEN en_aligned \cup {en_k} ELSE en_aligned
    /\ en_pc' = "load"
    /\ UNCHANGED <<en_n, en_k, en_whisper, en_diar, en_segments>>
    /\ UNCHANGED <<st_vars, fl_vars, al_vars, sp_vars, ov_vars, rp_vars, sf_vars,
                   aux_vars,
                   up_vars, gpu_vars, mg_vars>>

\* lines 80-84, then the next chunk
EnLoad ==
    /\ en_pc = "load"
    /\ en_segments' = IF en_k \in en_aligned
                      THEN en_segments \o EngineSegments(en_k) ELSE en_segments
    /\ en_k' = en_k + 1
    /\ en_pc' = IF en_k < en_n THEN "whisper" ELSE "merge"
    /\ UNCHANGED <<en_n, en_whisper, en_diar, en_aligned>>
    /\ UNCHANGED <<st_vars, fl_vars, al_vars, sp_vars, ov_vars, rp_vars, sf_vars,
                   aux_vars,
                   up_vars, gpu_vars, mg_vars>>

\* lines 86-96: the list is sorted and saved as the raw aligned transcript
EnSortAndSave ==
    /\ en_pc = "merge"
    /\ en_segments' = SortByStart(en_segments)
    /\ en_pc' = "sorted"
    /\ UNCHANGED <<en_n, en_k, en_whisper, en_diar, en_aligned>>
    /\ UNCHANGED <<st_vars, fl_vars, al_vars, sp_vars, ov_vars, rp_vars, sf_vars,
                   aux_vars,
                   up_vars, gpu_vars, mg_vars>>

InitEngine ==
    /\ EngineIdle
    /\ UploadIdle /\ AdaptersIdle /\ MergeIdle
    /\ CoreIdle /\ AuxIdle

NextEngine ==
    \/ EngineStart
    \/ EnWhisper
    \/ EnWhisperRaises
    \/ EnDiar
    \/ EnDiarFails
    \/ EnDiarRaises
    \/ EnAlign
    \/ EnLoad
    \/ EnSortAndSave

SpecEngine == InitEngine /\ [][NextEngine]_vars


(***************************************************************************)
(* Merge: OverallPipeline.step1_split_audio (the order of the chunks) and  *)
(* step3_merge_chunks, backend/core/overall_pipeline.py                    *)
(*                                                                         *)
(* A chunk file is named chunk_<i>_<start>_<end>.wav with i, start and end *)
(* written in decimal without padding (split.py 107).  A fresh run lists   *)
(* the chunks as split_audio returned them; a run that finds chunk files   *)
(* lists them with sorted(existing_chunks), which compares the names       *)
(* character by character.  step2_ai_processing appends the aligned file   *)
(* of each chunk in that order, and step3_merge_chunks loads them in that  *)
(* order.  Chunk i holds one segment, starting where the chunk starts; its  *)
(* id is the one run_alignment builds from the offset step 2 passes, the   *)
(* start_time_ms of the chunk's metadata entry (overall_pipeline.py        *)
(* 194-195, 223).                                                          *)
(***************************************************************************)
MergeChunkCounts == {1, 2, 3, 10, 11}

\* str(i) as character codes
RECURSIVE Decimal(_)
Decimal(i) == IF i < 10 THEN <<48 + i>> ELSE Append(Decimal(i \div 10), 48 + (i % 10))

\* the part of the name chunk_<i>_... that tells two chunks of a case apart:
\* the digits of i and the "_" that follows them (split.py 107)
NameKey(i) == Append(Decimal(i), 95)

\* a < b on strings: the first differing character decides, a proper prefix
\* is smaller
RECURSIVE LexLess(_, _)
LexLess(a, b) ==
    IF b = <<>> THEN FALSE
    ELSE IF a = <<>> THEN TRUE
    ELSE IF Head(a) # Head(b) THEN Head(a) < Head(b)
    ELSE LexLess(Tail(a), Tail(b))

\* sorted(existing_chunks) (overall_pipeline.py 100): the chunk indices in the
\* order of their file names
SortedNames(n) ==
    [r \in 1..n |->
        CHOOSE i \in 1..n :
            Cardinality({j \in 1..n : LexLess(NameKey(j), NameKey(i))}) = r - 1]

\* split_points of a split into n chunks, in half milliseconds: a cut that
\* lands on the midpoint of a silence is search_start + (s_start + s_end) / 2
\* (split.py 80), a float that is a whole number of milliseconds plus one half
\* when s_start + s_end is odd; the first point is 0 and the last one is
\* len(audio) (56, 96)
MergeCut(n, i) ==
    IF i = 0 THEN 0
    ELSE IF i = n THEN n * 2000
    ELSE i * 2000 + 1

\* f"chunk_{i+1}_{int(start)}_{int(end)}.wav" (split.py 107): int() drops the
\* fraction of a millisecond
ChunkFileName(i, start, end) == <<"chunk", i, start \div 2, end \div 2>>

\* the list split_audio returns (split.py 98-122), times in half milliseconds
SegmenterMetadata(n) ==
    [i \in 1..n |->
        [chunk_id      |-> i,
         file_path     |-> ChunkFileName(i, MergeCut(n, i - 1), MergeCut(n, i)),
         start_time_ms |-> MergeCut(n, i - 1),
         end_time_ms   |-> MergeCut(n, i),
         duration_ms   |-> MergeCut(n, i) - MergeCut(n, i - 1)]]

\* the list step1_split_audio builds when it finds the chunk files
\* (overall_pipeline.py 93-126): the names sorted as strings, chunk_id the
\* position in that order, start and end the integers parsed from the name
\* (here doubled, to compare them in half milliseconds)
RebuiltMetadata(n) ==
    LET names == [r \in 1..n |-> SegmenterMetadata(n)[SortedNames(n)[r]].file_path]
    IN  [r \in 1..n |->
            [chunk_id      |-> r,
             file_path     |-> names[r],
             start_time_ms |-> 2 * names[r][3],
             end_time_ms   |-> 2 * names[r][4],
             duration_ms   |-> 2 * names[r][4] - 2 * names[r][3]]]

\* start_time_ms of the chunks of a recording cut once a second
RegularStarts(n) == [i \in 1..n |-> (i - 1) * 1000]

\* a recording of 91.2 s with one silence of 2 s around 15.4 s
CloseCutAudio ==
    [decodable |-> TRUE, total_duration |-> 91200,
     silent |-> << <<14400, 16400>> >>, profile |-> "flat"]

\* start_time_ms of the chunks split_audio returns (split.py 113-119)
SegmenterStarts(audio, num_chunks) ==
    [i \in 1..num_chunks |-> split_audio(audio, num_chunks)[i].start_time_ms]

\* step1_split_audio 103-109: a chunk file whose name has fewer than four
\* parts between "_" gets start_ms = 0
DefaultedStarts(n) == [i \in 1..n |-> 0]

MergeCases ==
    {RegularStarts(n) : n \in MergeChunkCounts}
        \cup {SegmenterStarts(CloseCutAudio, default_num_chunks)}

\* the aligned segments of chunk i, with absolute times (pipeline.py 235-242)
MergeSegments(starts, i) ==
    <<[id |-> AlignedId(starts[i], 0), chunk |-> i,
       start |-> starts[i], end |-> starts[i] + 200]>>

\* run_complete_pipeline 366-370: steps 1 and 2 have listed the aligned files,
\* in split order on a fresh case (step1 142-152) and in the order of the
\* sorted names on a case that has chunk files (93-126)
MergeStart ==
    /\ mg_pc = "idle"
    /\ \E starts \in MergeCases, resumed \in BOOLEAN, named \in BOOLEAN :
          LET n == Len(starts)
          IN  /\ mg_n' = n
              /\ mg_resumed' = resumed
              /\ mg_order' = IF resumed THEN SortedNames(n) ELSE [r \in 1..n |-> r]
              /\ mg_starts' = IF resumed /\ ~named THEN DefaultedStarts(n) ELSE starts
    /\ mg_i' = 1
    /\ mg_pc' = "merge"
    /\ UNCHANGED mg_merged
    /\ UNCHANGED <<st_vars, fl_vars, al_vars, sp_vars, ov_vars, rp_vars, sf_vars,
                   aux_vars,
                   up_vars, gpu_vars, en_vars>>

\* step3_merge_chunks 252-255: the aligned file does not exist
MergeSkipMissing ==
    /\ mg_pc = "merge"
    /\ mg_i <= Len(mg_order)
    /\ mg_i' = mg_i + 1
    /\ UNCHANGED <<mg_pc, mg_n, mg_resumed, mg_order, mg_merged, mg_starts>>
    /\ UNCHANGED <<st_vars, fl_vars, al_vars, sp_vars, ov_vars, rp_vars, sf_vars,
                   aux_vars,
                   up_vars, gpu_vars, en_vars>>

\* step3_merge_chunks 257-275: the segments of the file are appended
MergeLoad ==
    /\ mg_pc = "merge"
    /\ mg_i <= Len(mg_order)
    /\ mg_merged' = mg_merged \o MergeSegments(mg_starts, mg_order[mg_i])
    /\ mg_i' = mg_i + 1
    /\ UNCHANGED <<mg_pc, mg_n, mg_resumed, mg_order, mg_starts>>
    /\ UNCHANGED <<st_vars, fl_vars, al_vars, sp_vars, ov_vars, rp_vars, sf_vars,
                   aux_vars,
                   up_vars, gpu_vars, en_vars>>

\* step3_merge_chunks 281-286: the list is returned as it is
MergeReturn ==
    /\ mg_pc = "merge"
    /\ mg_i > Len(mg_order)
    /\ mg_pc' = "done"
    /\ UNCHANGED <<mg_n, mg_resumed, mg_order, mg_i, mg_merged, mg_starts>>
    /\ UNCHANGED <<st_vars, fl_vars, al_vars, sp_vars, ov_vars, rp_vars, sf_vars,
                   aux_vars,
                   up_vars, gpu_vars, en_vars>>

InitMerge ==
    /\ MergeIdle
    /\ UploadIdle /\ AdaptersIdle /\ EngineIdle
    /\ CoreIdle /\ AuxIdle

NextMerge ==
    \/ MergeStart
    \/ MergeSkipMissing
    \/ MergeLoad
    \/ MergeReturn

SpecMerge == InitMerge /\ [][NextMerge]_vars


(***************************************************************************)
(* Save: the end of NeuroAIPipeline.run (run_pipeline.py 49-61) and        *)
(* FileManager.save_json (file_manager.py 219-234)                         *)
(*                                                                         *)
(* run hands final_data to save_json with backup=True.  save_json moves a  *)
(* transcript it finds to a .bak_<ts>.json name, opens the path for        *)
(* writing and dumps the data; any exception of these three steps is       *)
(* caught inside save_json, which prints it and returns False.  A case is  *)
(* run up to MaxSaves times.                                               *)
(***************************************************************************)
SaveData == {<<>>, <<"first">>, <<"second">>}

\* how the body of save_json ends: rename raises (224-227), open raises
\* (229), json.dump raises after the file was created (230), or all succeed
SaveOutcomes == {"rename_failed", "open_failed", "dump_failed", "written"}

\* what run returns after the call of save_json (run_pipeline.py 52-55)
RunResultAfterSave(saved) == TranscriptPath

\* save_json(final_data, output_path, backup=True), whole
SaveJson ==
    /\ sv_pc = "save"
    /\ \E outcome \in SaveOutcomes :
          LET backup == Exists(sv_transcript)
              renamed == backup /\ outcome # "rename_failed"
          IN  /\ outcome = "rename_failed" => backup
              /\ sv_backups' = IF renamed THEN Append(sv_backups, sv_transcript)
                                ELSE sv_backups
              /\ sv_transcript' =
                    CASE outcome = "rename_failed" -> sv_transcript
                      [] outcome = "open_failed"   -> AbsentJson
                      [] outcome = "dump_failed"   -> TornJson
                      [] outcome = "written"       -> Json(sv_data)
              /\ sv_saved' = (outcome = "written")
    /\ sv_pc' = "saved"
    /\ UNCHANGED <<sv_run, sv_data, sv_before, sv_result>>
    /\ UNCHANGED <<st_vars, fl_vars, al_vars, sp_vars, ov_vars, rp_vars, sf_vars,
                   up_vars, gpu_vars, mg_vars, en_vars, rt_vars>>

\* run 54-55: the value of save_json is dropped, the path is returned
RunReturnsAfterSave ==
    /\ sv_pc = "saved"
    /\ sv_result' = RunResultAfterSave(sv_saved)
    /\ sv_pc' = "done"
    /\ UNCHANGED <<sv_run, sv_data, sv_before, sv_transcript, sv_backups, sv_saved>>
    /\ UNCHANGED <<st_vars, fl_vars, al_vars, sp_vars, ov_vars, rp_vars, sf_vars,
                   up_vars, gpu_vars, mg_vars, en_vars, rt_vars>>

\* the case is run again and reaches line 51 with its own final_data
RunAgainToSave ==
    /\ sv_pc = "done"
    /\ sv_run < MaxSaves
    /\ sv_run' = sv_run + 1
    /\ sv_data' \in SaveData
    /\ sv_before' = sv_transcript
    /\ sv_result' = Absent
    /\ sv_pc' = "save"
    /\ UNCHANGED <<sv_transcript, sv_backups, sv_saved>>
    /\ UNCHANGED <<st_vars, fl_vars, al_vars, sp_vars, ov_vars, rp_vars, sf_vars,
                   up_vars, gpu_vars, mg_vars, en_vars, rt_vars>>

InitSave ==
    /\ sv_pc = "save" /\ sv_run = 1 /\ sv_data \in SaveData
    /\ sv_before = AbsentJson /\ sv_transcript = AbsentJson
    /\ sv_backups = <<>> /\ sv_saved = FALSE /\ sv_result = Absent
    /\ RetryIdle
    /\ UploadIdle /\ AdaptersIdle /\ MergeIdle /\ EngineIdle
    /\ CoreIdle

NextSave ==
    \/ SaveJson
    \/ RunReturnsAfterSave
    \/ RunAgainToSave

SpecSave == InitSave /\ [][NextSave]_vars


(***************************************************************************)
(* Retry: process_batch_safe (stitch.py 34-66) and analyze_batch_safe      *)
(* (flag.py 43-92), one call of either on one window                       *)
(*                                                                         *)
(* Each iteration of the loop calls agent.chat.completions.create once.    *)
(* The call returns the parsed reply or raises; the client is built with a *)
(* timeout (stitch.py 27-31, flag.py 36-40), so it does one or the other.  *)
(* An exception is handled by the first except clause that matches, which  *)
(* prints, sleeps and lets the loop go on.                                 *)
(***************************************************************************)
RetryCallers == {"stitch", "flag"}

\* what create raises: a timeout, a connection failure that is not a
\* timeout, or anything else (a reply that does not validate, a server error)
FailureKinds == {"APITimeoutError", "APIConnectionError", "Exception"}

MaxRetriesOf(who) == IF who = "stitch" THEN max_retries ELSE flag_max_retries

\* time.sleep of the except clause that catches the failure: stitch.py has
\* "except APITimeoutError" (59-61) and "except Exception" (62-64), flag.py
\* "except (APITimeoutError, APIConnectionError)" (85-87) and "except
\* Exception" (88-90)
SleepSeconds(who, kind) ==
    IF kind = "APITimeoutError" \/ (who = "flag" /\ kind = "APIConnectionError")
    THEN 2 ELSE 1

\* the loop runs one attempt too many
AttemptsLeft_OneMore(who, attempt) == attempt + 1 <= MaxRetriesOf(who)

\* for attempt in range(max_retries): another iteration follows this one
AttemptsLeft(who, attempt) == attempt + 1 < MaxRetriesOf(who)

\* one call of create (stitch.py 47-57, flag.py 73-83): it returns and the
\* function returns resp, or it raises
RetryCreate ==
    /\ rt_pc = "call"
    /\ \E outcome \in {"reply"} \cup FailureKinds :
          /\ rt_calls' = Append(rt_calls, outcome)
          /\ IF outcome = "reply"
             THEN rt_result' = "resp" /\ rt_pc' = "returned"
             ELSE rt_pc' = "sleep" /\ UNCHANGED rt_result
    /\ UNCHANGED <<rt_who, rt_attempt, rt_slept>>
    /\ UNCHANGED <<st_vars, fl_vars, al_vars, sp_vars, ov_vars, rp_vars, sf_vars,
                   up_vars, gpu_vars, mg_vars, en_vars, sv_vars>>

\* the except clause: print, sleep, next iteration if there is one
RetrySleep ==
    /\ rt_pc = "sleep"
    /\ rt_slept' = Append(rt_slept, SleepSeconds(rt_who, rt_calls[Len(rt_calls)]))
    /\ IF AttemptsLeft(rt_who, rt_attempt)
       THEN rt_attempt' = rt_attempt + 1 /\ rt_pc' = "call"
       ELSE rt_pc' = "exhausted" /\ UNCHANGED rt_attempt
    /\ UNCHANGED <<rt_who, rt_calls, rt_result>>
    /\ UNCHANGED <<st_vars, fl_vars, al_vars, sp_vars, ov_vars, rp_vars, sf_vars,
                   up_vars, gpu_vars, mg_vars, en_vars, sv_vars>>

\* return None after the loop (stitch.py 66, flag.py 92)
RetryReturnNone ==
    /\ rt_pc = "exhausted"
    /\ rt_result' = NoneVal
    /\ rt_pc' = "returned"
    /\ UNCHANGED <<rt_who, rt_attempt, rt_calls, rt_slept>>
    /\ UNCHANGED <<st_vars, fl_vars, al_vars, sp_vars, ov_vars, rp_vars, sf_vars,
                   up_vars, gpu_vars, mg_vars, en_vars, sv_vars>>

InitRetry ==
    /\ rt_pc = "call" /\ rt_who \in RetryCallers /\ rt_attempt = 0
    /\ rt_calls = <<>> /\ rt_slept = <<>> /\ rt_result = Absent
    /\ SaveIdle
    /\ UploadIdle /\ AdaptersIdle /\ MergeIdle /\ EngineIdle
    /\ CoreIdle

NextRetry ==
    \/ RetryCreate
    \/ RetrySleep
    \/ RetryReturnNone

SpecRetry == InitRetry /\ [][NextRetry]_vars

\* create returns or raises within the client's timeout and time.sleep
\* ends: a step that is possible is eventually taken
SpecRetryFair == SpecRetry /\ WF_vars(NextRetry)

(***************************************************************************)
(* Properties of the Stitcher                                              *)
(***************************************************************************)
\* the input segment carrying an id (ids of an input are distinct)
SegmentOf(id) == st_input[CHOOSE k \in 1..Len(st_input) : st_input[k].id = id]

\* how often an id occurs over all source_ids of the output
Occurrences(id) ==
    Cardinality({mj \in UNION {{<<m, j>> : j \in 1..Len(final_results[m].source_ids)}
                                   : m \in 1..Len(final_results)} :
                    final_results[mj[1]].source_ids[mj[2]] = id})

\* verbatim concatenation of the texts of a sentence's sources
VerbatimOf(sentence) ==
    Flatten([j \in 1..Len(sentence.source_ids) |-> SegmentOf(sentence.source_ids[j]).text])

\* C1: when run_stitching_logic has returned, every input segment id occurs
\* in the source_ids of at least one returned sentence.
StitchNoLoss ==
    st_pc = "done" =>
        \A k \in 1..Len(st_input) :
            \E m \in 1..Len(final_results) :
                st_input[k].id \in Range(final_results[m].source_ids)

\* C2: no input segment id occurs more than once over the source_ids of the
\* returned sentences: not in two sentences, not twice inside one.
StitchNoDuplication ==
    st_pc = "done" =>
        \A k \in 1..Len(st_input) : Occurrences(st_input[k].id) <= 1

\* C3: a sentence built from a group of the service is Rejected_Raw_Kept with
\* the verbatim concatenation as text exactly when similarity < 0.6 or
\* length ratio > 1.5 or length ratio < 0.5, and otherwise Verified with the
\* proposed text; a similarity of exactly 0.6 is accepted.
HallucinationGuardDecision ==
    \A m \in 1..Len(final_results) :
        st_log[m].kind = "group" =>
            LET sentence == final_results[m]
                original == VerbatimOf(sentence)
                proposed == st_log[m].proposed
                similarity == check_hallucination(original, proposed)
                rejected == \/ 10 * similarity[1] < 6 * similarity[2]
                            \/ 2 * Len(proposed) > 3 * (Len(original) + 1)
                            \/ 2 * Len(proposed) < Len(original) + 1
            IN  IF rejected
                THEN sentence.status = "Rejected_Raw_Kept" /\ sentence.text = original
                ELSE sentence.status = "Verified" /\ sentence.text = proposed

\* a proposal of similarity exactly 0.6 was accepted with its own text, and
\* another of similarity >= 0.6 was rejected for its length alone
GuardBoundaryReached ==
    /\ \E m \in 1..Len(final_results) :
          LET similarity == check_hallucination(VerbatimOf(final_results[m]),
                                                st_log[m].proposed)
          IN  /\ st_log[m].kind = "group"
              /\ 10 * similarity[1] = 6 * similarity[2]
              /\ final_results[m].status = "Verified"
              /\ final_results[m].text = st_log[m].proposed
              /\ final_results[m].text # VerbatimOf(final_results[m])
    /\ \E m \in 1..Len(final_results) :
          LET similarity == check_hallucination(VerbatimOf(final_results[m]),
                                                st_log[m].proposed)
          IN  /\ st_log[m].kind = "group"
              /\ 10 * similarity[1] >= 6 * similarity[2]
              /\ final_results[m].status = "Rejected_Raw_Kept"
              /\ final_results[m].text = VerbatimOf(final_results[m])

\* C4: the sources of every returned sentence all carry the same speaker.
NoCrossSpeakerMerge ==
    \A m \in 1..Len(final_results) :
        \A id1, id2 \in Range(final_results[m].source_ids) :
            SegmentOf(id1).speaker = SegmentOf(id2).speaker

\* the output positions that belong to the window at offset w
PositionsOf(w) == {m \in 1..Len(st_log) : st_log[m].window = w}

FailedWindows == {st_log[m].window : m \in {o \in 1..Len(st_log) : st_log[o].kind = "fallback"}}

\* C6: a window whose every attempt failed contributes exactly one sentence
\* per segment, in input order, with source_ids = [id], the segment's text,
\* speaker, start and end, status Raw_Fallback and score 1.0; the run goes on
\* to the windows after it.
TotalFailureFallback ==
    /\ \A w \in FailedWindows :
          LET batch == Slice(st_input, w, WINDOW_SIZE)
              first == CHOOSE m \in PositionsOf(w) : \A o \in PositionsOf(w) : m <= o
          IN  /\ PositionsOf(w) = first..(first + Len(batch) - 1)
              /\ \A j \in 1..Len(batch) :
                    LET sentence == final_results[first + j - 1]
                    IN  /\ sentence.source_ids = <<batch[j].id>>
                        /\ sentence.text = batch[j].text
                        /\ sentence.speaker = batch[j].speaker
                        /\ sentence.start = batch[j].start
                        /\ sentence.end = batch[j].end
                        /\ sentence.status = "Raw_Fallback"
                        /\ sentence.verification_score = 100
              /\ st_i >= w + WINDOW_SIZE
    /\ (st_pc = "done" <=> st_i >= Len(st_input))

\* the first window fell back and the window after it was stitched
FallbackThenStitched ==
    /\ st_pc = "done"
    /\ 0 \in FailedWindows
    /\ \E m \in 1..Len(st_log) :
          /\ st_log[m].window = WINDOW_SIZE
          /\ st_log[m].kind = "group"
          /\ final_results[m].source_ids = <<st_input[WINDOW_SIZE + 1].id>>

(***************************************************************************)
(* Properties of the Anomaly Flagger                                       *)
(***************************************************************************)
\* a text that is a short phrase said two or more times
IsRepeatedPhrase(text) ==
    \E p \in 1..(Len(text) \div 2) :
        /\ Len(text) % p = 0
        /\ \A c \in 1..Len(text) : text[c] = text[((c - 1) % p) + 1]

\* the log entry of the batch that holds position k of data
BatchEntries(k) == {b \in 1..Len(fl_log) : InBatch(k, fl_log[b].offset)}

\* C5: when run_anomaly_detector has returned, no sentence whose text is a
\* repeated short phrase has a non-null suggested_correction.
FlaggerConservatism ==
    fl_pc = "done" =>
        \A k \in 1..Len(data) :
            IsRepeatedPhrase(data[k].text) => data[k].suggested_correction = <<NoneVal>>

\* C7 as stated: needs_review holds exactly when the report of the sentence's
\* batch contains some assessment with its id and is_suspicious = true.
FlagIffSomeSuspiciousAssessment ==
    fl_pc = "done" =>
        \A k \in 1..Len(data) :
            data[k].needs_review
            <=> \E b \in BatchEntries(k) : \E a \in 1..Len(fl_log[b].assessments) :
                   /\ fl_log[b].assessments[a].sentence_id = data[k].sentence_id
                   /\ fl_log[b].assessments[a].is_suspicious

\* the last assessment of a report that carries the id, as a set (empty if none)
LastAssessmentFor(assessments, sid) ==
    {a \in 1..Len(assessments) :
        /\ assessments[a].sentence_id = sid
        /\ \A o \in (a + 1)..Len(assessments) : assessments[o].sentence_id # sid}

\* C7 amended: needs_review holds exactly when the last assessment with the
\* sentence's id in the report of its own batch has is_suspicious = true; a
\* sentence without needs_review has review fields of the default, so a
\* non-null suggested_correction is found only where needs_review holds.
FlagIffLastAssessmentSuspicious ==
    fl_pc = "done" =>
        \A k \in 1..Len(data) :
            /\ data[k].needs_review
               <=> \E b \in BatchEntries(k) :
                      \E a \in LastAssessmentFor(fl_log[b].assessments, data[k].sentence_id) :
                         fl_log[b].assessments[a].is_suspicious
            /\ ~data[k].needs_review => data[k].suggested_correction = <<NoneVal>>
            /\ data[k].suggested_correction # <<NoneVal>> => data[k].needs_review

\* a report assessed one id twice, suspicious first and not suspicious last,
\* and the sentence ended without needs_review
ConflictingAssessmentsSeen ==
    /\ fl_pc = "done"
    /\ \E k \in 1..Len(data) : \E b \in BatchEntries(k) :
          \E a1, a2 \in 1..Len(fl_log[b].assessments) :
             /\ a1 < a2
             /\ fl_log[b].assessments[a1].sentence_id = data[k].sentence_id
             /\ fl_log[b].assessments[a2].sentence_id = data[k].sentence_id
             /\ fl_log[b].assessments[a1].is_suspicious
             /\ ~fl_log[b].assessments[a2].is_suspicious
             /\ ~data[k].needs_review

\* C8: when all attempts of a batch failed, each of its sentences ends with
\* needs_review = false, no correction and review_reason "Analysis_Failed";
\* every batch of the input is gone through, and no sentence of a batch that
\* got a report carries review_reason "Analysis_Failed".
FlaggerFailureVisible ==
    fl_pc = "done" =>
        /\ \A k \in 1..Len(data) :
              /\ Cardinality(BatchEntries(k)) = 1
              /\ \A b \in BatchEntries(k) :
                    IF fl_log[b].failed
                    THEN /\ data[k].needs_review = FALSE
                         /\ data[k].suggested_correction = <<NoneVal>>
                         /\ data[k].review_reason = <<"Analysis_Failed">>
                    ELSE data[k].review_reason # <<"Analysis_Failed">>
        /\ Len(data) = Len(fl_input)

\* the first batch failed and a sentence of the batch after it was flagged
FailedBatchThenFlagged ==
    /\ fl_pc = "done"
    /\ \E b \in 1..Len(fl_log) : fl_log[b].offset = 0 /\ fl_log[b].failed
    /\ data[1].review_reason = <<"Analysis_Failed">>
    /\ \E k \in 1..Len(data) : k > batch_size /\ data[k].needs_review

(***************************************************************************)
(* Properties of the Aligner                                               *)
(***************************************************************************)
Overlap(w, d) == Max(0, Min(w.end, d.end) - Max(w.start, d.start))

RECURSIVE TotalOverlap(_, _, _)
\* the overlap of w with all turns of a label, from turn k on
TotalOverlap(w, label, k) ==
    IF k > Len(d_segs) THEN 0
    ELSE (IF d_segs[k].speaker = label THEN Overlap(w, d_segs[k]) ELSE 0)
         + TotalOverlap(w, label, k + 1)

OverlappingTurns(w) == {k \in 1..Len(d_segs) : Overlap(w, d_segs[k]) > 0}

\* position in the diarization list of the first turn of a label that overlaps w
FirstOverlapping(w, label) ==
    CHOOSE k \in OverlappingTurns(w) :
        /\ d_segs[k].speaker = label
        /\ \A o \in OverlappingTurns(w) : d_segs[o].speaker = label => k <= o

\* C9: a recognized segment that some turn overlaps gets the label of the
\* largest accumulated overlap; among labels that tie for the largest, the
\* one whose first overlapping turn is earliest in the diarization list.
AlignerSpeakerChoice ==
    al_pc = "done" =>
        \A k \in 1..Len(w_segs) :
            LET w == w_segs[k]
                labels == {d_segs[o].speaker : o \in OverlappingTurns(w)}
                chosen == aligned_data[k].speaker
            IN  labels # {} =>
                   /\ chosen \in labels
                   /\ \A l \in labels :
                         \/ TotalOverlap(w, l, 1) < TotalOverlap(w, chosen, 1)
                         \/ /\ TotalOverlap(w, l, 1) = TotalOverlap(w, chosen, 1)
                            /\ FirstOverlapping(w, chosen) <= FirstOverlapping(w, l)

\* two labels tie for the largest overlap, and the one assigned has collected
\* its overlap from more than one turn
TieAfterAccumulation ==
    /\ al_pc = "done"
    /\ \E k \in 1..Len(w_segs) :
          LET w == w_segs[k]
              chosen == aligned_data[k].speaker
          IN  /\ \E o \in OverlappingTurns(w) :
                    /\ d_segs[o].speaker # chosen
                    /\ TotalOverlap(w, d_segs[o].speaker, 1) = TotalOverlap(w, chosen, 1)
              /\ Cardinality({o \in OverlappingTurns(w) : d_segs[o].speaker = chosen}) > 1

\* C10: an aligned segment has speaker "Unknown" and flag "review_needed"
\* exactly when no turn overlaps the recognized segment; in every other case
\* its flag is "auto".
AlignerUnknownRule ==
    al_pc = "done" =>
        \A k \in 1..Len(w_segs) :
            IF OverlappingTurns(w_segs[k]) = {}
            THEN aligned_data[k].speaker = "Unknown" /\ aligned_data[k].flag = "review_needed"
            ELSE aligned_data[k].flag = "auto"

(***************************************************************************)
(* Properties of the Segmenter                                             *)
(***************************************************************************)
RECURSIVE SumDurations(_, _)
SumDurations(files, k) ==
    IF k = 0 THEN 0 ELSE files[k].duration_ms + SumDurations(files, k - 1)

SplitFinished == sp_pc = "done" /\ sp_audio.decodable

\* C11: the chunks of a decodable audio of duration D start at 0, end at D,
\* each chunk ends where the next one starts, no boundary lies before the
\* previous one (no chunk has a negative duration) and the durations sum to D.
SplitCoverage ==
    SplitFinished =>
        /\ output_files # <<>>
        /\ output_files[1].start_time_ms = 0
        /\ output_files[Len(output_files)].end_time_ms = sp_audio.total_duration
        /\ \A k \in 1..(Len(output_files) - 1) :
              output_files[k].end_time_ms = output_files[k + 1].start_time_ms
        /\ \A k \in 1..Len(output_files) :
              /\ output_files[k].start_time_ms <= output_files[k].end_time_ms
              /\ output_files[k].duration_ms >= 0
        /\ SumDurations(output_files, Len(output_files)) = sp_audio.total_duration

\* C12: a decodable audio always yields exactly num_chunks chunks, and cut i
\* lies in its own search window [max(0, t_i - 30 s), min(D, t_i + 30 s)],
\* with or without a silence in that window.
SplitAlwaysCuts ==
    SplitFinished =>
        /\ Len(output_files) = sp_num_chunks
        /\ \A i \in 1..(sp_num_chunks - 1) :
              /\ search_start(sp_audio, sp_num_chunks, i) <= output_files[i].end_time_ms
              /\ output_files[i].end_time_ms <= search_end(sp_audio, sp_num_chunks, i)

\* a finished split in which one window had a silence and another had none
FallbackCutMade ==
    /\ SplitFinished
    /\ \E i, j \in 1..(sp_num_chunks - 1) :
          /\ detect_silence(sp_audio, search_start(sp_audio, sp_num_chunks, i),
                            search_end(sp_audio, sp_num_chunks, i)) = <<>>
          /\ detect_silence(sp_audio, search_start(sp_audio, sp_num_chunks, j),
                            search_end(sp_audio, sp_num_chunks, j)) # <<>>
          /\ output_files[i].end_time_ms # search_start(sp_audio, sp_num_chunks, i)

(***************************************************************************)
(* Properties of the Orchestrator (OverallPipeline)                        *)
(***************************************************************************)
\* the second invocation, without force, after a first invocation that ran
\* to its end with no interruption and no adapter failure
SecondRunAfterCleanFirst ==
    /\ ov_run = 2
    /\ ~force_reprocess
    /\ ov_history.first_completed
    /\ ~ov_history.first_interrupted
    /\ ~ov_history.adapter_failed

\* C14: a second run on the unmodified case directory of a completed first
\* run makes no recognition call, no diarization call and no call to the
\* completion service (neither for Stitch nor for Flag).
ResumeSkipsCompletedWork ==
    SecondRunAfterCleanFirst => ov_calls = NoCalls

\* C15: after the second run on an unmodified case directory the final
\* transcript holds the same records with the same field values in the same
\* order as the one the first run produced.
IdempotentOutput ==
    (SecondRunAfterCleanFirst /\ ov_pc = "done") =>
        /\ Readable(final_transcript)
        /\ final_transcript.segments = ov_history.first_transcript.segments

\* the transcript holds the full recognition of chunk c
Covers(transcript, c) ==
    /\ Readable(transcript)
    /\ \E i \in 1..Len(transcript.segments) :
          /\ transcript.segments[i].chunk = c
          /\ transcript.segments[i].recog = "full"

\* C16: when the first run was interrupted (killed at any point, also in the
\* middle of a write, or stopped by Ctrl-C), the re-invoked pipeline, once it
\* has ended, has completed and its final transcript holds every chunk of
\* the audio in full, as an uninterrupted run's transcript does.
CrashSafeRestart ==
    ( /\ ov_run = 2
      /\ ov_pc \in {"done", "failed"}
      /\ ~force_reprocess
      /\ ov_history.first_interrupted
      /\ ~ov_history.interrupted
      /\ ~ov_history.adapter_failed
      /\ ov_audio.decodable ) =>
        /\ ov_pc = "done"
        /\ \A c \in 1..ov_num_chunks : Covers(final_transcript, c)

UndecodableAborts ==
    ~rp_audio.decodable =>
        /\ rp_calls = NoCalls
        /\ ~Exists(rp_transcript)
        /\ rp_pc \in {"idle", "queued", "split", "done"}
        /\ rp_pc = "done" =>
              /\ rp_chunk_metadata = <<>>
              /\ rp_result = NoneVal
              /\ rp_error = SplittingFailed

\* the run of an undecodable upload has ended
UndecodableRunEnded == rp_pc = "done" /\ ~rp_audio.decodable

\* a terminal status record: success with the transcript's path, or the
\* error record of spec 4.5
TerminalStatus(status, result) ==
    /\ Readable(status)
    /\ IF result = TranscriptPath
       THEN status.progress = 100 /\ status.message = TranscriptPath
       ELSE status.step = "Error" /\ status.progress = -1

\* C17: once a run has ended, the status record of the case is terminal; a
\* run that ended in a failure has left step = "Error", progress = -1.
TerminalStatusReached ==
    rp_pc = "done" => TerminalStatus(status_file, rp_result)

\* the phase a position of run belongs to
PhaseOf(pc) ==
    CASE pc = "split"       -> "Split"
      [] pc = "process"     -> "Process"
      [] pc = "stitch_flag" -> "Stitch"
      [] pc = "save"        -> "Finalize"

\* C18: while the run is in a phase, the persisted status record names that
\* phase (it was written on entering the phase, before the phase's work).
ProgressPerPhase ==
    rp_pc \in {"split", "process", "stitch_flag", "save"} =>
        /\ Readable(status_file)
        /\ status_file.step = PhaseOf(rp_pc)

\* C19: whatever the interleaving with save_status, get_status returns a
\* complete record that was handed to save_status (or the "Init" record when
\* none was written yet): never a partial record, never an "Error" record
\* the pipeline did not persist.
StatusPollSafe ==
    polled \in ({NotPolled, InitStatus} \cup sw_saved)

ExclusiveModelResidency ==
    /\ Cardinality(resident) <= 1
    /\ gpu_pc \in {"whisper", "diar"} => resident = {}
    /\ gpu_pc \notin {"idle", "done"} => gpu_k = Len(gpu_outcomes) + 1
                                         \/ gpu_pc = "loop_finally"

\* run_diarization has returned from its failure path and its model is still
\* in memory when the loop is about to go on
FailedDiarizationLeftModel ==
    /\ gpu_pc = "clean_diar"
    /\ resident = {"pyannote"}

(***************************************************************************)
(* Properties of the Orchestrators: failures                               *)
(***************************************************************************)
\* C23: when the recognition or diarization artifact of a chunk is missing at
\* the moment alignment is attempted (so that the chunk is listed without an
\* aligned file), the run is aborted: it never comes to write a final
\* transcript, which would silently omit that chunk.
MissingAlignerInputAborts ==
    ov_pc \in {"save", "save_write", "done"} =>
        \A k \in 1..Len(aligned_files) : Exists(aligned_json[aligned_files[k]])

\* C24: when an adapter fails for one chunk, the chunks after it are still
\* processed and the failure does not by itself abort the case: the
\* processing of the case only ends once every chunk has been visited.
ChunkFailuresIsolated ==
    en_pc \in {"raised", "merge", "sorted"} => en_k > en_n

(***************************************************************************)
(* Properties of the Orchestrator (NeuroAIPipeline): stitching and         *)
(* flagging per chunk                                                      *)
(***************************************************************************)
\* the final transcript has an entry made from the aligned segment seg
Covered(content, seg) ==
    \E i \in 1..Len(content) :
        \/ "source_ids" \in DOMAIN content[i] /\ seg.id \in Range(content[i].source_ids)
        \/ "id" \in DOMAIN content[i] /\ content[i].id = seg.id

\* the final transcript has seg as a sentence of its own, word for word
Verbatim(content, seg) ==
    \E i \in 1..Len(content) :
        /\ "source_ids" \in DOMAIN content[i]
        /\ content[i].source_ids = <<seg.id>>
        /\ content[i].text = seg.text
        /\ content[i].start = seg.start /\ content[i].end = seg.end
        /\ content[i].speaker = seg.speaker

\* C25: a run whose calls of the completion service all failed during Stitch
\* or during Flag still ends with a final transcript; the transcript has an
\* entry for every aligned segment of the case, word for word when Stitch
\* failed, and every entry is unflagged and marked Analysis_Failed when Flag
\* failed.
ServiceFailuresNeverAbort ==
    (/\ rp_pc = "done"
     /\ "stitch" \in DOMAIN rp_calls
     /\ "service_failed" \in {rp_calls.stitch, rp_calls.flag}) =>
        /\ Readable(rp_transcript)
        /\ rp_result = TranscriptPath
        /\ rp_error = Absent
        /\ \A c \in WithSegments(rp_aligned) : \A k \in 1..Len(rp_aligned[c]) :
              /\ Covered(rp_transcript.content, rp_aligned[c][k])
              /\ rp_calls.stitch = "service_failed" =>
                    Verbatim(rp_transcript.content, rp_aligned[c][k])
        /\ rp_calls.flag = "service_failed" =>
              \A i \in 1..Len(rp_transcript.content) :
                  /\ rp_transcript.content[i].needs_review = FALSE
                  /\ rp_transcript.content[i].review_reason = <<"Analysis_Failed">>

\* a run of two or more chunks ended after every call of Stitch and of Flag
\* had failed
BothServicesFailed ==
    /\ rp_pc = "done"
    /\ "stitch" \in DOMAIN rp_calls
    /\ rp_calls.stitch = "service_failed" /\ rp_calls.flag = "service_failed"
    /\ Cardinality(WithSegments(rp_aligned)) >= 2

\* C26: the sentence_id values of the final transcript of a case are
\* 0, 1, ..., k-1 in output order.
DenseSentenceIds ==
    (rp_pc = "done" /\ Readable(rp_transcript)) =>
        \A i \in 1..Len(rp_transcript.content) :
            /\ "sentence_id" \in DOMAIN rp_transcript.content[i]
            /\ rp_transcript.content[i].sentence_id = i - 1

(***************************************************************************)
(* Properties of the Stitcher: the shape of a sentence                     *)
(***************************************************************************)
\* ids names consecutive segments of the input, in the order of the input
ContiguousRun(ids, input) ==
    /\ ids # <<>>
    /\ \E p \in 1..Len(input) :
          \A j \in 1..Len(ids) :
              p + j - 1 <= Len(input) /\ ids[j] = input[p + j - 1].id

\* C27: every sentence the Stitcher produced has source_ids that are a
\* contiguous run of the input segments in input order, and its start is not
\* later than its end.
SourceIdsShape ==
    \A i \in 1..Len(final_results) :
        /\ ContiguousRun(final_results[i].source_ids, raw_data)
        /\ final_results[i].start <= final_results[i].end

\* C28: every segment of the final transcript has a status among Verified,
\* Rejected_Raw_Kept and Raw_Fallback, a verification_score between 0 and 1
\* (0 and 100 hundredths) and a source_ids list, also when Stitch or Flag
\* raised.
FinalRecordsValid ==
    (rp_pc = "done" /\ Readable(rp_transcript)) =>
        \A i \in 1..Len(rp_transcript.content) :
            LET item == rp_transcript.content[i]
            IN  /\ {"status", "verification_score", "source_ids"} \subseteq DOMAIN item
                /\ item.status \in {"Verified", "Rejected_Raw_Kept", "Raw_Fallback"}
                /\ item.verification_score \in 0..100

(***************************************************************************)
(* Properties of the Merge step                                            *)
(***************************************************************************)
\* C29: the list step3_merge_chunks returns is in non-decreasing order of
\* start time, whatever the order in which the chunk files were listed.
MergedTimeSorted ==
    mg_pc = "done" =>
        \A i \in 1..(Len(mg_merged) - 1) : mg_merged[i].start <= mg_merged[i + 1].start

\* C35: no two aligned segments of a case carry the same id, whatever the
\* start offsets of its chunks.
AlignedIdsUnique ==
    \A i, j \in 1..Len(mg_merged) : i # j => mg_merged[i].id # mg_merged[j].id

(***************************************************************************)
(* Properties of the case directory                                        *)
(***************************************************************************)
\* a step after which every chunk file, every JSON file of a chunk and the
\* final transcript that was in the case directory is still at its path
KeepsArtifacts ==
    /\ Range(chunk_files) \subseteq Range(chunk_files')
    /\ \A c \in ChunkSlots :
          /\ Exists(whisper_json[c]) => Exists(whisper_json'[c])
          /\ Exists(diar_json[c]) => Exists(diar_json'[c])
          /\ Exists(aligned_json[c]) => Exists(aligned_json'[c])
    /\ Exists(final_transcript) => Exists(final_transcript')

InputNotMutated == raw_data = st_input

\* the ids of the window that starts after the first w segments
WindowIds(w) ==
    LET batch == Slice(st_input, w, WINDOW_SIZE)
    IN  {batch[k].id : k \in 1..Len(batch)}

\* C33: every sentence the Stitcher emitted has a non-empty source_ids list
\* whose ids all belong to the window that was being processed when it was
\* emitted; ids the service returned from outside that window are dropped,
\* and a group left without ids is not emitted.
UntrustedIdsDiscarded ==
    /\ Len(st_log) = Len(final_results)
    /\ \A m \in 1..Len(final_results) :
          /\ final_results[m].source_ids # <<>>
          /\ Range(final_results[m].source_ids) \subseteq WindowIds(st_log[m].window)
          /\ st_log[m].kind = "group" =>
                final_results[m].source_ids =
                    SelectSeq(st_log[m].named,
                              LAMBDA bid : bid \in WindowIds(st_log[m].window))

\* a sentence was emitted for a group in which the service had named a
\* segment of the other window, and another for a group naming an id of no
\* segment
ForeignIdsWereReturned ==
    /\ \E m \in 1..Len(st_log) :
          /\ st_log[m].kind = "group"
          /\ \E j \in 1..Len(st_log[m].named) :
                /\ st_log[m].named[j] # ForeignId
                /\ st_log[m].named[j] \notin WindowIds(st_log[m].window)
                /\ \E k \in 1..Len(st_input) : st_input[k].id = st_log[m].named[j]
    /\ \E m \in 1..Len(st_log) :
          st_log[m].kind = "group" /\ ForeignId \in Range(st_log[m].named)

(***************************************************************************)
(* Properties of the Orchestrator (OverallPipeline): checkpoints           *)
(***************************************************************************)
\* C34: a whisper file that is on storage as a complete JSON document holds
\* the recognition of the whole chunk: a recognition that failed part-way
\* left no file a later run would skip on.
CheckpointMeansComplete ==
    \A c \in ChunkSlots :
        Readable(whisper_json[c]) => whisper_json[c].content = <<"full">>

\* the loop of step2_ai_processing is over
Step2Returning == ov_pc = "chunk" /\ ov_k > Len(chunk_metadata)

\* C36: when step2_ai_processing returns, every aligned file it lists exists
\* and the number of chunks it reports as successful is the number of chunks
\* whose aligned file exists.
BookkeepingTruthful ==
    Step2Returning =>
        /\ \A k \in 1..Len(aligned_files) : Exists(aligned_json[aligned_files[k]])
        /\ success_count =
              Cardinality({k \in 1..Len(chunk_metadata) :
                              Exists(aligned_json[SlotOf(chunk_metadata[k])])})

(***************************************************************************)
(* Properties of the Flagger: what it leaves alone                         *)
(***************************************************************************)
\* C38: the list of the Flagger has the sentences it was given, in the same
\* order and number, with text, speaker, start, end, source_ids, status and
\* verification_score as given; sentence_id is as given where it was present
\* and the position in the list where it was absent.
FlaggerFrame ==
    /\ Len(data) = Len(fl_input)
    /\ \A k \in 1..Len(data) :
          /\ data[k].text = fl_input[k].text
          /\ data[k].speaker = fl_input[k].speaker
          /\ data[k].start = fl_input[k].start
          /\ data[k].end = fl_input[k].end
          /\ data[k].source_ids = fl_input[k].source_ids
          /\ data[k].status = fl_input[k].status
          /\ data[k].verification_score = fl_input[k].verification_score
          /\ fl_pc # "start" =>
                data[k].sentence_id = IF fl_input[k].sentence_id = AbsentNum
                                      THEN k - 1
                                      ELSE fl_input[k].sentence_id

\* the Flagger has finished a list of two batches, flagged a sentence with a
\* suggested correction in one and failed on the other
FlaggedAndFailedBatches ==
    /\ fl_pc = "done"
    /\ \E k \in 1..Len(data) :
          data[k].needs_review /\ data[k].suggested_correction # <<NoneVal>>
    /\ \E k \in 1..Len(data) : data[k].review_reason = <<"Analysis_Failed">>

(***************************************************************************)
(* Properties of resuming a case                                           *)
(***************************************************************************)
\* C39: when Split is skipped because the chunk files exist, the metadata
\* rebuilt from their names (order, chunk_id, start and end offsets) is the
\* metadata the Segmenter returned when it wrote them.
ResumeRebuildsMetadata ==
    (mg_pc # "idle" /\ mg_resumed) => RebuiltMetadata(mg_n) = SegmenterMetadata(mg_n)

(***************************************************************************)
(* Properties of the final save                                            *)
(***************************************************************************)
\* C37: run returns the output path only if the final transcript was written
\* to it; when the write fails run reports a failure and a transcript that
\* was at the path before the run is still there.
SuccessImpliesWritten ==
    sv_pc = "done" =>
        /\ sv_result = TranscriptPath =>
              (Readable(sv_transcript) /\ sv_transcript.content = sv_data)
        /\ ~sv_saved =>
              /\ sv_result = NoneVal
              /\ Exists(sv_before) => sv_transcript = sv_before

(***************************************************************************)
(* Properties of the retry loops                                           *)
(***************************************************************************)
\* the calls of create made so far for the window, and what they tell
RetryBounded ==
    /\ Len(rt_calls) <= 3
    /\ \A k \in 1..(Len(rt_calls) - 1) : rt_calls[k] \in FailureKinds
    /\ Len(rt_slept) =
          Cardinality({k \in 1..Len(rt_calls) : rt_calls[k] \in FailureKinds})
              - (IF rt_pc = "sleep" THEN 1 ELSE 0)
    /\ rt_pc = "returned" =>
          \/ rt_result = "resp" /\ rt_calls[Len(rt_calls)] = "reply"
          \/ /\ rt_result = NoneVal
             /\ Len(rt_calls) = 3
             /\ \A k \in 1..3 : rt_calls[k] \in FailureKinds

RetryReturned == rt_pc = "returned"

====
